---- MODULE Spec2Model ----
(***************************************************************************)
(* Model of the session concurrency core of clai:                          *)
(*   - the Stream driver (internal/chat, type Stream) together with the    *)
(*     producer goroutine of OpenAIClient.StreamMessage that feeds it;     *)
(*   - the Session coordinator (internal/chat, type Session) with its      *)
(*     InteractiveMode loop, the SendMessage goroutines it spawns, the     *)
(*     permission hand-off and the Observer on the two event channels.     *)
(* The two halves share no state in the source (Session.StartStream reads   *)
(* the provider channel itself and never builds a Stream), so each has its  *)
(* own next-state relation and specification over the common variables.     *)
(***************************************************************************)
EXTENDS Integers, Sequences, FiniteSets, TLC

\* ------------------------------------------------------------------ bounds
MaxLen == 3
LongLen == 12
MaxZero == 2
MaxCloses == 1
MaxPrompts == 2
MaxChunks == 3
MaxCancels == 1
MaxPathLen == 5
ShortPathLen == 2

\* --------------------------------------------------------------- constants
ChanCap == 10

ChunkMessage == "message"
ChunkToolCall == "tool_call"
ChunkThink == "think"

ToolNames == {"t1", "t2"}

\* the nil *ai.ToolCall
NoTool == [id |-> <<0, 0>>, name |-> "nil"]

\* the zero value MessageChunk{} that a receive on a closed channel yields
ZeroChunk == [typ |-> "", content |-> 0, tool |-> NoTool]

\* Chunk number i of model call n.  A message or think chunk carries its
\* position as its text, so that concatenations keep the delivery order; a
\* tool-call chunk carries a call with an id unique to (n, i).
MkChunk(n, i, k) ==
  IF k \in ToolNames
    THEN [typ |-> ChunkToolCall, content |-> 0, tool |-> [id |-> <<n, i>>, name |-> k]]
    ELSE [typ |-> k, content |-> i, tool |-> NoTool]

MkScript(n, ks) == [i \in 1..Len(ks) |-> MkChunk(n, i, ks[i])]

KindSeqs(K, m) == UNION {[1..l -> K] : l \in 0..m}

\* what the provider may answer to the Stream driver: every short sequence of
\* chunk kinds, and two long answers that overrun the channel buffer
StreamScripts ==
  {MkScript(1, ks) : ks \in KindSeqs({ChunkMessage, ChunkThink, "t1"}, MaxLen)}
    \cup {MkScript(1, [i \in 1..LongLen |-> ChunkMessage]),
          MkScript(1, [i \in 1..LongLen |-> IF i = 1 THEN "t1" ELSE ChunkMessage])}

VARIABLES
  \* process-level context and the provider's producer goroutine
  ctxOuter,     \* TRUE once the caller's context is cancelled
  deltas,       \* what the producer goroutine still has to send
  producer,     \* "idle", "run", "done"
  streamChan,   \* contents of the buffered channel
  chanClosed,   \* close(streamChan) has run
  sentLog,      \* chunks the producer has put into the channel, in order
  readErr,      \* the producer stopped on a read error of the response body
  \* Stream
  sPc,          \* position of Start
  chunk,        \* chunk held by the receive loop
  ctxStream,    \* TRUE once s.cancel() has run
  cancelSet,    \* s.cancel has been assigned
  waiter,       \* s.waiter: "unset", "live", "done"
  content, reasoning, toolCall,
  onStartCalls, onChunkLog, zeroChunks, onEndLog,
  startRet,     \* "none", "nil", "err"
  closeCalls,   \* Close() calls made by other goroutines
  waitPc,       \* a goroutine calling Wait(): "idle", "blocked", "returned"
  \* Session
  messages,        \* s.messages
  permittedTools,  \* s.permittedTools
  mu,              \* s.mu: 0 when free, else the goroutine holding it
  streamStarted,   \* s.streamStarted
  imPc,            \* InteractiveMode: "select", "permitTrue", "permitFalse", "returned"
  nPrompts,        \* SendMessage goroutines spawned so far
  calls,           \* client.StreamMessage calls that returned a channel
  stack,           \* per SendMessage goroutine, its frames of sendFullContext
  limits,          \* how many prompts the Observer sends and how long the answers get
  \* Observer
  pendingToolCall, \* the tool call the Observer has been asked about
  nCancels,
  \* history of the run
  obsLog,          \* events delivered to the Observer and its permission answers, in order
  execLog,         \* tool executions, each with the allow-list it ran under
  turnLog,         \* for each entry of messages, the turn that appended it
  cancelledTurns,  \* turns whose stream was active when cancel-stream was sent
  \* tool execution
  maxPath,         \* how long the path arguments of this run get
  excludePatterns, \* cfg.ExcludePatterns
  toolPc,          \* "idle", "called", "blocked", "returned", "crashed"
  toolUse,         \* the ToolUse handed to ExecuteTool
  toolResult,      \* the ToolResult it returned
  touched,         \* the filesystem paths the executor went to
  \* the terminal UI (ChatModel) and the session's side of its channels
  sessAt,          \* where the session is in StartStream, as the UI can tell
  outbox,          \* the event the session is blocked sending on s.events
  remaining,       \* the chunks the provider will still deliver in this turn
  nSent,           \* events the session has put on s.events so far
  listeners,       \* listen commands blocked in <-m.in
  inflight,        \* events a listen command has received and not yet handed to Update
  handled,         \* the chunk and think events Update has handled in this turn
  uiPendingTool,   \* m.pendingToolCall != nil
  uiThinking,      \* m.thinking
  uiTyping,        \* m.typing
  waitingPrompts,  \* prompts whose SendMessage goroutine waits for the turn before it
  uiTurns,         \* prompts submitted
  uiEscs,          \* Esc presses
  \* enhanceMessage
  enhPc,           \* "idle", "called", "done"
  enhIn,           \* the message passed in
  enhFiles,        \* what fileReader returns for each name
  enhOut,          \* the message returned
  readerCalls,     \* the names fileReader was called with
  \* the chunk classifier
  clsPc,           \* "idle", "called", "done"
  clsDelta,        \* the delta decoded from one line of the response
  clsOut,          \* the chunks put on the channel for it
  \* onStreamEnded
  prosePc,         \* "idle", "called", "done", "crashed"
  proseIn,         \* the final content of the stream
  proseOut,        \* what actuallyAToolCall returned
  injected,        \* the events onStreamEnded put on m.in
  \* files.Context
  ctxFiles,        \* c.files: the size held for each path, 0 for a path not held
  totalSize,       \* c.totalSize
  ctxOps,          \* operations made on the context so far
  \* callers of a Stream that has not been started
  earlyPanics      \* the methods that panicked on a nil field

streamVars ==
  <<ctxOuter, deltas, producer, streamChan, chanClosed, sentLog, readErr, sPc, chunk, ctxStream,
    cancelSet, waiter, content, reasoning, toolCall, onStartCalls, onChunkLog,
    zeroChunks, onEndLog, startRet, closeCalls, waitPc>>

sessVars ==
  <<messages, permittedTools, mu, streamStarted, imPc, nPrompts, calls, stack, limits,
    pendingToolCall, nCancels, obsLog, execLog, turnLog, cancelledTurns>>

toolVars == <<maxPath, excludePatterns, toolPc, toolUse, toolResult, touched>>

uiVars ==
  <<sessAt, outbox, remaining, nSent, listeners, inflight, handled, uiPendingTool,
    uiThinking, uiTyping, waitingPrompts, uiTurns, uiEscs>>

enhVars == <<enhPc, enhIn, enhFiles, enhOut, readerCalls>>

\* the chunk classifier of the provider's producer goroutine
clsVars == <<clsPc, clsDelta, clsOut>>

\* onStreamEnded with actuallyAToolCall
proseVars == <<prosePc, proseIn, proseOut, injected>>

\* files.Context
fileVars == <<ctxFiles, totalSize, ctxOps>>

moreVars == <<clsVars, proseVars, fileVars, earlyPanics>>

vars == <<streamVars, sessVars, toolVars, uiVars, enhVars, moreVars>>

\* ------------------------------------------------------------ Stream: Init
\* NewStream
StreamInit ==
  /\ ctxOuter = FALSE
  /\ deltas = <<>>
  /\ producer = "idle"
  /\ streamChan = <<>>
  /\ chanClosed = FALSE
  /\ sentLog = <<>>
  /\ readErr = FALSE
  /\ sPc = "new"
  /\ chunk = ZeroChunk
  /\ ctxStream = FALSE
  /\ cancelSet = FALSE
  /\ waiter = "unset"
  /\ content = <<>>
  /\ reasoning = <<>>
  /\ toolCall = NoTool
  /\ onStartCalls = 0
  /\ onChunkLog = <<>>
  /\ zeroChunks = 0
  /\ onEndLog = <<>>
  /\ startRet = "none"
  /\ closeCalls = 0
  /\ waitPc = "idle"

\* the context the receive loop selects on: child of the caller's context
CtxErr == ctxStream \/ ctxOuter

prodVars == <<deltas, producer, streamChan, chanClosed, sentLog, readErr>>
accVars == <<content, reasoning, toolCall>>
cbVars == <<onStartCalls, onChunkLog, zeroChunks, onEndLog>>
extVars == <<closeCalls, waitPc>>

\* -------------------------------------------- provider producer goroutine
\* one chunk is sent into the buffered channel
ProducerSend ==
  /\ producer = "run"
  /\ deltas # <<>>
  /\ Len(streamChan) < ChanCap
  /\ streamChan' = Append(streamChan, Head(deltas))
  /\ deltas' = Tail(deltas)
  /\ sentLog' = Append(sentLog, Head(deltas))
  /\ UNCHANGED <<sessVars, toolVars, uiVars, enhVars, moreVars>>
  /\ UNCHANGED <<producer, chanClosed, readErr, ctxOuter, sPc, chunk, ctxStream, cancelSet,
                 waiter, accVars, cbVars, startRet, extVars>>

\* the body is exhausted ([DONE] or EOF): deferred close(streamChan)
ProducerEOF ==
  /\ producer = "run"
  /\ deltas = <<>>
  /\ producer' = "done"
  /\ chanClosed' = TRUE
  /\ UNCHANGED <<sessVars, toolVars, uiVars, enhVars, moreVars>>
  /\ UNCHANGED <<deltas, streamChan, sentLog, readErr, ctxOuter, sPc, chunk, ctxStream,
                 cancelSet, waiter, accVars, cbVars, startRet, extVars>>

\* the send select sees the done channel of the context StreamMessage got
ProducerCtxDone ==
  /\ producer = "run"
  /\ deltas # <<>>
  /\ ctxOuter
  /\ producer' = "done"
  /\ chanClosed' = TRUE
  /\ deltas' = <<>>
  /\ UNCHANGED <<sessVars, toolVars, uiVars, enhVars, moreVars>>
  /\ UNCHANGED <<streamChan, sentLog, readErr, ctxOuter, sPc, chunk, ctxStream, cancelSet,
                 waiter, accVars, cbVars, startRet, extVars>>

\* reader.ReadBytes fails mid-stream: the goroutine returns
ProducerReadErr ==
  /\ producer = "run"
  /\ deltas # <<>>
  /\ producer' = "done"
  /\ chanClosed' = TRUE
  /\ deltas' = <<>>
  /\ readErr' = TRUE
  /\ UNCHANGED <<sessVars, toolVars, uiVars, enhVars, moreVars>>
  /\ UNCHANGED <<streamChan, sentLog, ctxOuter, sPc, chunk, ctxStream, cancelSet,
                 waiter, accVars, cbVars, startRet, extVars>>

\* ----------------------------------------------------------- Stream.Start
\* s.client.StreamMessage succeeds and starts the producer
StartConnect ==
  /\ sPc = "new"
  /\ ~ctxOuter
  /\ \E sc \in StreamScripts : deltas' = sc
  /\ producer' = "run"
  /\ sPc' = "setup"
  /\ UNCHANGED <<sessVars, toolVars, uiVars, enhVars, moreVars>>
  /\ UNCHANGED <<streamChan, chanClosed, sentLog, readErr, ctxOuter, chunk, ctxStream, cancelSet,
                 waiter, accVars, cbVars, startRet, extVars>>

\* the error path running the end callback before it returns
StartConnectErrOnEnd ==
  /\ sPc = "new"
  /\ sPc' = "returned"
  /\ startRet' = "err"
  /\ onEndLog' = Append(onEndLog, content)
  /\ UNCHANGED <<sessVars, toolVars, uiVars, enhVars, moreVars>>
  /\ UNCHANGED <<prodVars, ctxOuter, chunk, ctxStream, cancelSet, waiter,
                 accVars, onStartCalls, onChunkLog, zeroChunks, extVars>>

\* s.client.StreamMessage fails: Start returns the error
StartConnectErr ==
  /\ sPc = "new"
  /\ sPc' = "returned"
  /\ startRet' = "err"
  /\ UNCHANGED <<sessVars, toolVars, uiVars, enhVars, moreVars>>
  /\ UNCHANGED <<prodVars, ctxOuter, chunk, ctxStream, cancelSet, waiter,
                 accVars, cbVars, extVars>>

\* s.waiter and s.cancel are created
StartSetup ==
  /\ sPc = "setup"
  /\ waiter' = "live"
  /\ cancelSet' = TRUE
  /\ sPc' = "onStart"
  /\ UNCHANGED <<sessVars, toolVars, uiVars, enhVars, moreVars>>
  /\ UNCHANGED <<prodVars, ctxOuter, chunk, ctxStream, accVars, cbVars,
                 startRet, extVars>>

StartOnStart ==
  /\ sPc = "onStart"
  /\ onStartCalls' = onStartCalls + 1
  /\ sPc' = "loop"
  /\ UNCHANGED <<sessVars, toolVars, uiVars, enhVars, moreVars>>
  /\ UNCHANGED <<prodVars, ctxOuter, chunk, ctxStream, cancelSet, waiter,
                 accVars, onChunkLog, zeroChunks, onEndLog, startRet, extVars>>

\* the loop honouring a cancellation only once the channel is drained
LoopCheckNoErr ==
  /\ sPc = "loop"
  /\ sPc' = IF CtxErr /\ streamChan = <<>> THEN "onEnd" ELSE "select"
  /\ UNCHANGED <<sessVars, toolVars, uiVars, enhVars, moreVars>>
  /\ UNCHANGED <<prodVars, ctxOuter, chunk, ctxStream, cancelSet, waiter,
                 accVars, cbVars, startRet, extVars>>

\* the loop exit releasing the waiter before the end callback has run
LoopCheckDone ==
  /\ sPc = "loop"
  /\ sPc' = IF CtxErr THEN "onEnd" ELSE "select"
  /\ waiter' = IF CtxErr THEN "done" ELSE waiter
  /\ UNCHANGED <<sessVars, toolVars, uiVars, enhVars, moreVars>>
  /\ UNCHANGED <<prodVars, ctxOuter, chunk, ctxStream, cancelSet,
                 accVars, cbVars, startRet, extVars>>

\* for ctx.Err() == nil
LoopCheck ==
  /\ sPc = "loop"
  /\ sPc' = IF CtxErr THEN "onEnd" ELSE "select"
  /\ UNCHANGED <<sessVars, toolVars, uiVars, enhVars, moreVars>>
  /\ UNCHANGED <<prodVars, ctxOuter, chunk, ctxStream, cancelSet, waiter,
                 accVars, cbVars, startRet, extVars>>

\* case <-ctx.Done()
SelectDone ==
  /\ sPc = "select"
  /\ CtxErr
  /\ sPc' = "loop"
  /\ UNCHANGED <<sessVars, toolVars, uiVars, enhVars, moreVars>>
  /\ UNCHANGED <<prodVars, ctxOuter, chunk, ctxStream, cancelSet, waiter,
                 accVars, cbVars, startRet, extVars>>

\* case chunk := <-s.stream; a closed and drained channel yields the zero chunk
SelectRecv ==
  /\ sPc = "select"
  /\ \/ /\ streamChan # <<>>
        /\ chunk' = Head(streamChan)
        /\ streamChan' = Tail(streamChan)
     \/ /\ streamChan = <<>>
        /\ chanClosed
        /\ chunk' = ZeroChunk
        /\ UNCHANGED streamChan
  /\ sPc' = "fold"
  /\ UNCHANGED <<sessVars, toolVars, uiVars, enhVars, moreVars>>
  /\ UNCHANGED <<deltas, producer, chanClosed, sentLog, readErr, ctxOuter, ctxStream,
                 cancelSet, waiter, accVars, cbVars, startRet, extVars>>

\* Fold without the s.Close() of the tool-call case
FoldNoClose ==
  /\ sPc = "fold"
  /\ toolCall' = IF chunk.typ = ChunkToolCall THEN chunk.tool ELSE toolCall
  /\ content' = IF chunk.typ = ChunkMessage THEN Append(content, chunk.content) ELSE content
  /\ reasoning' = IF chunk.typ = ChunkThink THEN Append(reasoning, chunk.content) ELSE reasoning
  /\ sPc' = "onChunk"
  /\ UNCHANGED <<sessVars, toolVars, uiVars, enhVars, moreVars>>
  /\ UNCHANGED <<prodVars, ctxOuter, chunk, ctxStream, cancelSet, waiter, cbVars,
                 startRet, extVars>>

\* switch chunk.Type()
Fold ==
  /\ sPc = "fold"
  /\ toolCall' = IF chunk.typ = ChunkToolCall THEN chunk.tool ELSE toolCall
  /\ ctxStream' = IF chunk.typ = ChunkToolCall THEN TRUE ELSE ctxStream
  /\ content' = IF chunk.typ = ChunkMessage THEN Append(content, chunk.content) ELSE content
  /\ reasoning' = IF chunk.typ = ChunkThink THEN Append(reasoning, chunk.content) ELSE reasoning
  /\ sPc' = "onChunk"
  /\ UNCHANGED <<sessVars, toolVars, uiVars, enhVars, moreVars>>
  /\ UNCHANGED <<prodVars, ctxOuter, chunk, cancelSet, waiter, cbVars,
                 startRet, extVars>>

\* the observer callback skipped once the stream is cancelled
OnChunkUnlessCancelled ==
  /\ sPc = "onChunk"
  /\ IF chunk = ZeroChunk
       THEN /\ zeroChunks' = IF zeroChunks < MaxZero THEN zeroChunks + 1 ELSE zeroChunks
            /\ UNCHANGED onChunkLog
       ELSE /\ onChunkLog' = IF CtxErr THEN onChunkLog ELSE Append(onChunkLog, chunk)
            /\ UNCHANGED zeroChunks
  /\ sPc' = "loop"
  /\ UNCHANGED <<sessVars, toolVars, uiVars, enhVars, moreVars>>
  /\ UNCHANGED <<prodVars, ctxOuter, chunk, ctxStream, cancelSet, waiter,
                 accVars, onStartCalls, onEndLog, startRet, extVars>>

\* s.onChunk(chunk)
OnChunk ==
  /\ sPc = "onChunk"
  /\ IF chunk = ZeroChunk
       THEN /\ zeroChunks' = IF zeroChunks < MaxZero THEN zeroChunks + 1 ELSE zeroChunks
            /\ UNCHANGED onChunkLog
       ELSE /\ onChunkLog' = Append(onChunkLog, chunk)
            /\ UNCHANGED zeroChunks
  /\ sPc' = "loop"
  /\ UNCHANGED <<sessVars, toolVars, uiVars, enhVars, moreVars>>
  /\ UNCHANGED <<prodVars, ctxOuter, chunk, ctxStream, cancelSet, waiter,
                 accVars, onStartCalls, onEndLog, startRet, extVars>>

\* s.onEnd(s.content.String())
OnEnd ==
  /\ sPc = "onEnd"
  /\ onEndLog' = Append(onEndLog, content)
  /\ sPc' = "finish"
  /\ UNCHANGED <<sessVars, toolVars, uiVars, enhVars, moreVars>>
  /\ UNCHANGED <<prodVars, ctxOuter, chunk, ctxStream, cancelSet, waiter,
                 accVars, onStartCalls, onChunkLog, zeroChunks, startRet, extVars>>

\* done(); return nil; the deferred s.cancel() and done()
Finish ==
  /\ sPc = "finish"
  /\ waiter' = "done"
  /\ ctxStream' = TRUE
  /\ startRet' = "nil"
  /\ sPc' = "returned"
  /\ UNCHANGED <<sessVars, toolVars, uiVars, enhVars, moreVars>>
  /\ UNCHANGED <<prodVars, ctxOuter, chunk, cancelSet, accVars, cbVars, extVars>>

\* ------------------------------------------------ callers on other goroutines
\* Stream.Close on a started stream
Close ==
  /\ cancelSet
  /\ closeCalls < MaxCloses
  /\ closeCalls' = closeCalls + 1
  /\ ctxStream' = TRUE
  /\ UNCHANGED <<sessVars, toolVars, uiVars, enhVars, moreVars>>
  /\ UNCHANGED <<prodVars, ctxOuter, sPc, chunk, cancelSet, waiter, accVars,
                 cbVars, startRet, waitPc>>

\* Stream.Wait: <-s.waiter.Done()
WaitCall ==
  /\ waitPc = "idle"
  /\ waiter # "unset"
  /\ waitPc' = "blocked"
  /\ UNCHANGED <<sessVars, toolVars, uiVars, enhVars, moreVars>>
  /\ UNCHANGED <<prodVars, ctxOuter, sPc, chunk, ctxStream, cancelSet, waiter,
                 accVars, cbVars, startRet, closeCalls>>

WaitReturn ==
  /\ waitPc = "blocked"
  /\ waiter = "done"
  /\ waitPc' = "returned"
  /\ UNCHANGED <<sessVars, toolVars, uiVars, enhVars, moreVars>>
  /\ UNCHANGED <<prodVars, ctxOuter, sPc, chunk, ctxStream, cancelSet, waiter,
                 accVars, cbVars, startRet, closeCalls>>

\* the interrupt handler of run() cancels the process context
CancelOuter ==
  /\ ~ctxOuter
  /\ sPc # "new"
  /\ ctxOuter' = TRUE
  /\ UNCHANGED <<sessVars, toolVars, uiVars, enhVars, moreVars>>
  /\ UNCHANGED <<prodVars, sPc, chunk, ctxStream, cancelSet, waiter, accVars,
                 cbVars, startRet, extVars>>

\* ================================================================ Session
\* what the provider may send next on the channel of a StreamMessage call
SessionKinds == {ChunkMessage, ChunkThink} \cup ToolNames

Goroutines == 1..MaxPrompts

NoText == <<>>
NoId == <<0, 0>>

\* ai.Message; a message or answer text is the sequence of its chunk texts
Message(role, kind, text, id) ==
  [role |-> role, content |-> [kind |-> kind, text |-> text],
   toolCallID |-> id, toolCall |-> NoTool]

\* an entry of the Observer's log
Obs(k, call, text) == [k |-> k, call |-> call, text |-> text]

\* a frame of sendFullContext with the locals of the StartStream it runs
\* (call: the number of the StreamMessage call; stream: chunks received on it)
Frame(pc) ==
  [pc |-> pc, call |-> 0, stream |-> 0, chunk |-> ZeroChunk, response |-> <<>>, err |-> FALSE]

\* the sessions explored: many prompts with short answers, one prompt with
\* long answers, and two prompts with answers of two chunks
SessionLimits ==
  {[prompts |-> MaxPrompts, chunks |-> 1],
   [prompts |-> 1, chunks |-> MaxChunks],
   [prompts |-> 2, chunks |-> 2]}

\* NewSession
SessionInit ==
  /\ limits \in SessionLimits
  /\ messages = <<>>
  /\ permittedTools = {}
  /\ mu = 0
  /\ streamStarted = FALSE
  /\ imPc = "select"
  /\ nPrompts = 0
  /\ calls = 0
  /\ stack = [g \in Goroutines |-> <<>>]
  /\ pendingToolCall = NoTool
  /\ nCancels = 0
  /\ obsLog = <<>>
  /\ execLog = <<>>
  /\ turnLog = <<>>
  /\ cancelledTurns = {}

streamRest ==
  <<toolVars, uiVars, enhVars, moreVars,
    deltas, producer, streamChan, chanClosed, sentLog, readErr, sPc, chunk, ctxStream, cancelSet,
    waiter, content, reasoning, toolCall, onStartCalls, onChunkLog, zeroChunks,
    onEndLog, startRet, closeCalls, waitPc>>

Top(g) == stack[g][Len(stack[g])]
Pc(g) == IF stack[g] = <<>> THEN "none" ELSE Top(g).pc
SetTop(g, f) == [stack EXCEPT ![g] = [@ EXCEPT ![Len(@)] = f]]
Goto(g, pc) == SetTop(g, [Top(g) EXCEPT !.pc = pc])

\* the frame has a provider channel open that its range loop has not left
StreamingPcs == {"range", "wait_permit", "exec", "nested"}
InFlight ==
  UNION {{<<g, d>> : d \in {e \in 1..Len(stack[g]) : stack[g][e].pc \in StreamingPcs}} :
           g \in Goroutines}
ActiveTurns == {g \in Goroutines : \E d \in 1..Len(stack[g]) : stack[g][d].pc \in StreamingPcs}

\* --------------------------------------------------------- the Observer's commands
\* user-prompt: InteractiveMode appends the user message and spawns SendMessage
UserPrompt ==
  /\ imPc = "select"
  /\ nPrompts < limits.prompts
  /\ nPrompts' = nPrompts + 1
  /\ messages' = Append(messages, Message("user", "prompt", <<nPrompts + 1>>, NoId))
  /\ turnLog' = Append(turnLog, nPrompts + 1)
  /\ stack' = [stack EXCEPT ![nPrompts + 1] = <<Frame("sm_append")>>]
  /\ UNCHANGED <<permittedTools, mu, streamStarted, imPc, calls, pendingToolCall,
                 nCancels, obsLog, execLog, cancelledTurns, limits, ctxOuter, streamRest>>

\* a grant for one call that also enters the name in the allow-list
PermitOnceRemembered ==
  /\ imPc = "select"
  /\ pendingToolCall # NoTool
  /\ obsLog' = Append(obsLog, Obs("permit-tool-once", pendingToolCall, NoText))
  /\ permittedTools' = permittedTools \cup {pendingToolCall.name}
  /\ pendingToolCall' = NoTool
  /\ imPc' = "permitTrue"
  /\ UNCHANGED <<messages, mu, streamStarted, nPrompts, calls, stack,
                 nCancels, execLog, turnLog, cancelledTurns, limits, ctxOuter, streamRest>>

\* permit-tool-once for the pending call: InteractiveMode goes to send true
PermitOnce ==
  /\ imPc = "select"
  /\ pendingToolCall # NoTool
  /\ obsLog' = Append(obsLog, Obs("permit-tool-once", pendingToolCall, NoText))
  /\ pendingToolCall' = NoTool
  /\ imPc' = "permitTrue"
  /\ UNCHANGED <<messages, permittedTools, mu, streamStarted, nPrompts, calls, stack,
                 nCancels, execLog, turnLog, cancelledTurns, limits, ctxOuter, streamRest>>

\* a permit-tool-for-session command for a call nobody asked about
PermitSessionUnasked ==
  /\ imPc = "select"
  /\ obsLog' = Append(obsLog, Obs("permit-tool-for-session", pendingToolCall, NoText))
  /\ permittedTools' = permittedTools \cup {pendingToolCall.name}
  /\ pendingToolCall' = NoTool
  /\ imPc' = "permitTrue"
  /\ UNCHANGED <<messages, mu, streamStarted, nPrompts, calls, stack,
                 nCancels, execLog, turnLog, cancelledTurns, limits, ctxOuter, streamRest>>

\* permit-tool-for-session: the name enters the allow-list, then true is sent
PermitSession ==
  /\ imPc = "select"
  /\ pendingToolCall # NoTool
  /\ obsLog' = Append(obsLog, Obs("permit-tool-for-session", pendingToolCall, NoText))
  /\ permittedTools' = permittedTools \cup {pendingToolCall.name}
  /\ pendingToolCall' = NoTool
  /\ imPc' = "permitTrue"
  /\ UNCHANGED <<messages, mu, streamStarted, nPrompts, calls, stack,
                 nCancels, execLog, turnLog, cancelledTurns, limits, ctxOuter, streamRest>>

\* a refusal after which the Observer still holds the call as pending
DenyKeepsPending ==
  /\ imPc = "select"
  /\ pendingToolCall # NoTool
  /\ obsLog' = Append(obsLog, Obs("deny-tool", pendingToolCall, NoText))
  /\ imPc' = "permitFalse"
  /\ UNCHANGED <<messages, permittedTools, mu, streamStarted, nPrompts, calls, stack,
                 pendingToolCall, nCancels, execLog, turnLog, cancelledTurns, limits,
                 ctxOuter, streamRest>>

\* deny-tool: InteractiveMode goes to send false
Deny ==
  /\ imPc = "select"
  /\ pendingToolCall # NoTool
  /\ obsLog' = Append(obsLog, Obs("deny-tool", pendingToolCall, NoText))
  /\ pendingToolCall' = NoTool
  /\ imPc' = "permitFalse"
  /\ UNCHANGED <<messages, permittedTools, mu, streamStarted, nPrompts, calls, stack,
                 nCancels, execLog, turnLog, cancelledTurns, limits, ctxOuter, streamRest>>

\* cancel-stream while a stream is active: InteractiveMode has no case for it
\* and logs it as an unknown UI event
CancelStream ==
  /\ imPc = "select"
  /\ nCancels < MaxCancels
  /\ ActiveTurns # {}
  /\ nCancels' = nCancels + 1
  /\ cancelledTurns' = cancelledTurns \cup ActiveTurns
  /\ UNCHANGED <<messages, permittedTools, mu, streamStarted, imPc, nPrompts, calls,
                 stack, pendingToolCall, obsLog, execLog, turnLog, limits, ctxOuter, streamRest>>

\* ------------------------------------------------- a SendMessage goroutine
\* SendMessage appends the user message
SendMessage(g) ==
  /\ Pc(g) = "sm_append"
  /\ messages' = Append(messages, Message("user", "prompt", <<g>>, NoId))
  /\ turnLog' = Append(turnLog, g)
  /\ stack' = Goto(g, "lock")
  /\ UNCHANGED <<permittedTools, mu, streamStarted, imPc, nPrompts, calls,
                 pendingToolCall, nCancels, obsLog, execLog, cancelledTurns,
                 limits, ctxOuter, streamRest>>

\* sendFullContext entered without waiting for the mutex
LockNoMutex(g) ==
  /\ Pc(g) = "lock"
  /\ mu' = g
  /\ stack' = Goto(g, "start")
  /\ UNCHANGED <<messages, permittedTools, streamStarted, imPc, nPrompts, calls,
                 pendingToolCall, nCancels, obsLog, execLog, turnLog, cancelledTurns,
                 limits, ctxOuter, streamRest>>

\* sendFullContext: s.mu.Lock()
Lock(g) ==
  /\ Pc(g) = "lock"
  /\ mu = 0
  /\ mu' = g
  /\ stack' = Goto(g, "start")
  /\ UNCHANGED <<messages, permittedTools, streamStarted, imPc, nPrompts, calls,
                 pendingToolCall, nCancels, obsLog, execLog, turnLog, cancelledTurns,
                 limits, ctxOuter, streamRest>>

\* the deferred s.mu.Unlock() and the return of sendFullContext: a nested call
\* returns to the break of its caller's loop and on to the end of that
\* StartStream (s.streamStarted = true); the outermost ends the goroutine
Return(g) ==
  /\ mu' = 0
  /\ stack' = [stack EXCEPT ![g] =
                 IF Len(@) = 1 THEN <<>>
                 ELSE [SubSeq(@, 1, Len(@) - 1) EXCEPT ![Len(@) - 1].pc = "endstream"]]

\* StartStream: the state is reset, client.StreamMessage returns a channel
\* and stream-started goes to the Observer
StartStream(g) ==
  /\ Pc(g) = "start"
  /\ streamStarted' = FALSE
  /\ calls' = calls + 1
  /\ obsLog' = Append(obsLog, Obs("stream-started", NoTool, NoText))
  /\ stack' = SetTop(g, [Top(g) EXCEPT !.pc = "range", !.call = calls + 1])
  /\ UNCHANGED <<messages, permittedTools, mu, imPc, nPrompts,
                 pendingToolCall, nCancels, execLog, turnLog, cancelledTurns,
                 limits, ctxOuter, streamRest>>

\* the error path going on to record an (empty) assistant message
StartStreamErrAppend(g) ==
  /\ Pc(g) = "start"
  /\ streamStarted' = FALSE
  /\ obsLog' = Append(obsLog, Obs("stream-error", NoTool, NoText))
  /\ messages' = Append(messages, Message("assistant", "text", NoText, NoId))
  /\ turnLog' = Append(turnLog, g)
  /\ Return(g)
  /\ UNCHANGED <<permittedTools, imPc, nPrompts, calls,
                 pendingToolCall, nCancels, execLog, cancelledTurns,
                 limits, ctxOuter, streamRest>>

\* StartStream: client.StreamMessage returns an error; sendFullContext sends
\* stream-error, calls EndStream("") and returns the error
StartStreamErr(g) ==
  /\ Pc(g) = "start"
  /\ streamStarted' = FALSE
  /\ obsLog' = Append(obsLog, Obs("stream-error", NoTool, NoText))
  /\ Return(g)
  /\ UNCHANGED <<messages, permittedTools, imPc, nPrompts, calls,
                 pendingToolCall, nCancels, execLog, turnLog, cancelledTurns,
                 limits, ctxOuter, streamRest>>

\* for chunk := range stream, and the switch on chunk.Type().  The provider
\* decides what comes next: one more chunk of any kind, or the close of the
\* channel (the answer is complete, or the transport failed).
RangeStream(g) ==
  /\ Pc(g) = "range"
  /\ LET f == Top(g) IN
       \/ \* the channel is closed: the loop ends, s.streamStarted = true
          /\ streamStarted' = TRUE
          /\ stack' = Goto(g, "endstream")
          /\ UNCHANGED <<obsLog, pendingToolCall>>
       \/ /\ f.stream < limits.chunks
          /\ \E k \in SessionKinds :
               LET c == MkChunk(f.call, f.stream + 1, k)
                   f1 == [f EXCEPT !.chunk = c, !.stream = f.stream + 1]
               IN CASE c.typ = ChunkMessage ->
                         /\ obsLog' = Append(obsLog, Obs("stream-chunk", NoTool, <<c.content>>))
                         /\ stack' = SetTop(g, [f1 EXCEPT !.response = Append(@, c.content)])
                         /\ UNCHANGED pendingToolCall
                    [] c.typ = ChunkThink ->
                         /\ obsLog' = Append(obsLog, Obs("stream-think", NoTool, <<c.content>>))
                         /\ stack' = SetTop(g, f1)
                         /\ UNCHANGED pendingToolCall
                    [] c.typ = ChunkToolCall /\ c.tool.name \in permittedTools ->
                         /\ stack' = SetTop(g, [f1 EXCEPT !.pc = "exec"])
                         /\ UNCHANGED <<obsLog, pendingToolCall>>
                    [] c.typ = ChunkToolCall /\ c.tool.name \notin permittedTools ->
                         \* tool-call-requested; the Observer keeps the call pending
                         /\ obsLog' = Append(obsLog, Obs("tool-call-requested", c.tool, NoText))
                         /\ pendingToolCall' = c.tool
                         /\ stack' = SetTop(g, [f1 EXCEPT !.pc = "wait_permit"])
          /\ UNCHANGED streamStarted
  /\ UNCHANGED <<messages, permittedTools, mu, imPc, nPrompts, calls,
                 nCancels, execLog, turnLog, cancelledTurns, limits, ctxOuter, streamRest>>

\* the answer is received and its value ignored
ReceivePermitIgnored(g) ==
  /\ Pc(g) = "wait_permit"
  /\ imPc \in {"permitTrue", "permitFalse"}
  /\ imPc' = "select"
  /\ stack' = Goto(g, "exec")
  /\ UNCHANGED <<messages, permittedTools, mu, streamStarted, nPrompts, calls,
                 pendingToolCall, nCancels, obsLog, execLog, turnLog, cancelledTurns,
                 limits, ctxOuter, streamRest>>

\* ok := <-s.permitToolCall, against the send of InteractiveMode; on false
\* the loop continues with the next chunk
ReceivePermit(g) ==
  /\ Pc(g) = "wait_permit"
  /\ imPc \in {"permitTrue", "permitFalse"}
  /\ imPc' = "select"
  /\ stack' = Goto(g, IF imPc = "permitTrue" THEN "exec" ELSE "range")
  /\ UNCHANGED <<messages, permittedTools, mu, streamStarted, nPrompts, calls,
                 pendingToolCall, nCancels, obsLog, execLog, turnLog, cancelledTurns,
                 limits, ctxOuter, streamRest>>

\* output := s.executeTool(chunk.ToolCall); respondWithToolOutput appends the
\* result under the call's id and calls sendFullContext
ExecuteTool(g) ==
  /\ Pc(g) = "exec"
  /\ execLog' = Append(execLog, [call |-> Top(g).chunk.tool, allow |-> permittedTools])
  /\ messages' = Append(messages,
                   Message("user", "output", Top(g).chunk.tool.id, Top(g).chunk.tool.id))
  /\ turnLog' = Append(turnLog, g)
  /\ stack' = [stack EXCEPT ![g] = Append(Goto(g, "nested")[g], Frame("lock"))]
  /\ UNCHANGED <<permittedTools, mu, streamStarted, imPc, nPrompts, calls,
                 pendingToolCall, nCancels, obsLog, cancelledTurns,
                 limits, ctxOuter, streamRest>>

\* EndStream called with the empty string instead of the answer
EndStreamEmpty(g) ==
  /\ Pc(g) = "endstream"
  /\ IF streamStarted
       THEN /\ obsLog' = Append(obsLog, Obs("stream-ended", NoTool, NoText))
            /\ streamStarted' = FALSE
       ELSE UNCHANGED <<obsLog, streamStarted>>
  /\ stack' = Goto(g, "append")
  /\ UNCHANGED <<messages, permittedTools, mu, imPc, nPrompts, calls,
                 pendingToolCall, nCancels, execLog, turnLog, cancelledTurns,
                 limits, ctxOuter, streamRest>>

\* EndStream(res): stream-ended with the text of the answer
EndStream(g) ==
  /\ Pc(g) = "endstream"
  /\ IF streamStarted
       THEN /\ obsLog' = Append(obsLog, Obs("stream-ended", NoTool, Top(g).response))
            /\ streamStarted' = FALSE
       ELSE UNCHANGED <<obsLog, streamStarted>>
  /\ stack' = Goto(g, "append")
  /\ UNCHANGED <<messages, permittedTools, mu, imPc, nPrompts, calls,
                 pendingToolCall, nCancels, execLog, turnLog, cancelledTurns,
                 limits, ctxOuter, streamRest>>

\* sendFullContext appends the assistant message and returns
AppendAssistant(g) ==
  /\ Pc(g) = "append"
  /\ messages' = Append(messages, Message("assistant", "text", Top(g).response, NoId))
  /\ turnLog' = Append(turnLog, g)
  /\ Return(g)
  /\ UNCHANGED <<permittedTools, streamStarted, imPc, nPrompts, calls,
                 pendingToolCall, nCancels, obsLog, execLog, cancelledTurns,
                 limits, ctxOuter, streamRest>>

GoroutineStep(g) ==
  \/ SendMessage(g) \/ Lock(g) \/ StartStream(g) \/ StartStreamErr(g)
  \/ RangeStream(g) \/ ReceivePermit(g) \/ ExecuteTool(g)
  \/ EndStream(g) \/ AppendAssistant(g)

SessionNext ==
  \/ UserPrompt \/ PermitOnce \/ PermitSession \/ Deny \/ CancelStream
  \/ \E g \in Goroutines :
       \/ SendMessage(g) \/ Lock(g) \/ StartStream(g) \/ StartStreamErr(g)
       \/ RangeStream(g) \/ ReceivePermit(g) \/ ExecuteTool(g)
       \/ EndStream(g) \/ AppendAssistant(g)

\* ================================================================ tools
\* Strings are sequences of characters.  The alphabet is enough to spell the
\* working directory /w, a sibling /wa, traversals and absolute paths.
Chars == {"/", ".", "w", "a"}

Strings(n) == UNION {[1..l -> Chars] : l \in 0..n}

\* Session.workingDir, from os.Getwd(): absolute, and the process's directory
WorkingDir == <<"/", "w">>

\* cfg.ExcludePatterns: none, or one directory pattern in the style of "vendor/"
ExcludeChoices == {<<>>, << <<"a", "/">> >>}

\* the names registered in DefaultTools by the init functions
Registry ==
  {"read_file", "write_file", "list_files", "search_files", "grep", "find",
   "mkdir", "filetype", "diff"}

UnknownNames == {"", "run_shell"}

HasPrefix(str, pre) ==
  Len(pre) <= Len(str) /\ SubSeq(str, 1, Len(pre)) = pre

HasSuffix(str, suf) ==
  Len(suf) <= Len(str) /\ SubSeq(str, Len(str) - Len(suf) + 1, Len(str)) = suf

TrimPrefix(str, pre) ==
  IF HasPrefix(str, pre) THEN SubSeq(str, Len(pre) + 1, Len(str)) ELSE str

TrimSuffix(str, suf) ==
  IF HasSuffix(str, suf) THEN SubSeq(str, 1, Len(str) - Len(suf)) ELSE str

Contains(str, sub) ==
  \E i \in 1..(Len(str) - Len(sub) + 1) : SubSeq(str, i, i + Len(sub) - 1) = sub

\* strings.ReplaceAll(path, "../", ""): one left-to-right pass
RECURSIVE RemoveDotDotSlash(_)
RemoveDotDotSlash(str) ==
  IF str = <<>> THEN <<>>
  ELSE IF HasPrefix(str, <<".", ".", "/">>)
         THEN RemoveDotDotSlash(SubSeq(str, 4, Len(str)))
         ELSE <<Head(str)>> \o RemoveDotDotSlash(Tail(str))

Sanitize(path) == RemoveDotDotSlash(TrimPrefix(path, <<"/">>))

\* the elements of a path between its separators
RECURSIVE Split(_, _)
Split(str, cur) ==
  IF str = <<>> THEN <<cur>>
  ELSE IF Head(str) = "/"
         THEN <<cur>> \o Split(Tail(str), <<>>)
         ELSE Split(Tail(str), Append(cur, Head(str)))

RECURSIVE JoinSegs(_)
JoinSegs(segs) ==
  IF segs = <<>> THEN <<>>
  ELSE IF Len(segs) = 1 THEN segs[1]
  ELSE segs[1] \o <<"/">> \o JoinSegs(Tail(segs))

IsAbs(path) == path # <<>> /\ path[1] = "/"

\* the element stack of filepath.Clean
RECURSIVE CleanSegs(_, _, _)
CleanSegs(segs, acc, rooted) ==
  IF segs = <<>> THEN acc
  ELSE LET h == Head(segs) IN
    IF h = <<>> \/ h = <<".">> THEN CleanSegs(Tail(segs), acc, rooted)
    ELSE IF h = <<".", ".">>
      THEN IF acc # <<>> /\ acc[Len(acc)] # <<".", ".">>
             THEN CleanSegs(Tail(segs), SubSeq(acc, 1, Len(acc) - 1), rooted)
             ELSE IF rooted THEN CleanSegs(Tail(segs), acc, rooted)
                  ELSE CleanSegs(Tail(segs), Append(acc, h), rooted)
      ELSE CleanSegs(Tail(segs), Append(acc, h), rooted)

\* filepath.Clean
Clean(path) ==
  IF path = <<>> THEN <<".">>
  ELSE LET segs == CleanSegs(Split(path, <<>>), <<>>, IsAbs(path)) IN
    IF IsAbs(path) THEN <<"/">> \o JoinSegs(segs)
    ELSE IF segs = <<>> THEN <<".">> ELSE JoinSegs(segs)

\* filepath.Join of two elements: empty elements are ignored
Join(a, b) ==
  IF a = <<>> /\ b = <<>> THEN <<>>
  ELSE IF a = <<>> THEN Clean(b)
  ELSE IF b = <<>> THEN Clean(a)
  ELSE Clean(a \o <<"/">> \o b)

\* filepath.Abs, the process running in WorkingDir
Abs(path) == IF IsAbs(path) THEN Clean(path) ELSE Join(WorkingDir, path)

\* filepath.Base
Base(path) ==
  IF path = <<>> THEN <<".">>
  ELSE LET segs == SelectSeq(Split(path, <<>>), LAMBDA x : x # <<>>) IN
    IF segs = <<>> THEN <<"/">> ELSE segs[Len(segs)]

\* filepath.Match for the patterns at hand, which have no metacharacter
Match(pattern, name) == pattern = name

MatchesPattern(cfg, path) ==
  \E i \in 1..Len(cfg) : Match(cfg[i], Base(path))

\* IsExcluded indexes path[0]: on the empty string it panics
IsExcludedPanics(path) == path = <<>>

IsExcluded(cfg, path) ==
  \/ path[1] = "/"
  \/ \E i \in 1..Len(cfg) :
       \/ Match(cfg[i], Base(path))
       \/ Contains(path, TrimSuffix(cfg[i], <<"/">>))

\* what an executor did: refused before touching anything ("denied"), went
\* to the filesystem ("ran"), or panicked
Denied0 == [kind |-> "denied", touched |-> {}]
Ran(paths) == [kind |-> "ran", touched |-> paths]
Panicked == [kind |-> "panic", touched |-> {}]

readFile(cfg, path) ==
  LET targetPath == Join(WorkingDir, path) IN
    IF ~HasPrefix(Abs(targetPath), Abs(WorkingDir)) THEN Denied0
    ELSE IF MatchesPattern(cfg, targetPath) THEN Denied0
    ELSE Ran({Abs(targetPath)})

writeFile(cfg, path) ==
  LET targetPath == Join(WorkingDir, path) IN
    IF ~HasPrefix(Abs(targetPath), Abs(WorkingDir)) THEN Denied0
    ELSE Ran({Abs(targetPath)})

listFiles(cfg, path) ==
  LET targetPath == Join(WorkingDir, path) IN
    IF IsExcludedPanics(targetPath) THEN Panicked
    ELSE IF IsExcluded(cfg, targetPath) THEN Denied0
    ELSE Ran({Abs(targetPath)})

\* registered under "search_files" ahead of searchFiles
searchFile(cfg, path) ==
  IF ~HasPrefix(Abs(path), Abs(WorkingDir)) THEN Denied0
  ELSE LET targetPath == Join(Abs(WorkingDir), path) IN
    IF MatchesPattern(cfg, targetPath) \/ MatchesPattern(cfg, path) THEN Denied0
    ELSE Ran({Abs(targetPath)})

\* Exists(params.Path) stats the path before the target is built
grep(cfg, path) ==
  LET p == IF path = <<>> THEN <<".">> ELSE path IN
    IF IsExcluded(cfg, p) THEN Denied0
    ELSE Ran({Abs(p), Abs(Join(WorkingDir, p))})

\* sh -c "find <path> <raw_args>"
find(cfg, path) ==
  IF IsExcludedPanics(path) THEN Panicked
  ELSE IF IsExcluded(cfg, path) THEN Denied0
  ELSE Ran({Abs(path)})

mkdir(cfg, path) ==
  LET p == Sanitize(path) IN
    IF IsExcludedPanics(p) THEN Panicked
    ELSE IF IsExcluded(cfg, p) THEN Denied0
    ELSE Ran({Abs(Join(WorkingDir, p))})

\* exec "file <path>", relative to the process's directory
filetype(cfg, path) ==
  LET p == Sanitize(path) IN
    IF IsExcludedPanics(p) THEN Panicked
    ELSE IF IsExcluded(cfg, p) THEN Denied0
    ELSE Ran({Abs(p)})

\* sh -c "diff <args> <file1> <file2>", here with file1 = file2
diff(cfg, path) ==
  LET p == Sanitize(path) IN
    IF IsExcludedPanics(p) THEN Panicked
    ELSE IF IsExcluded(cfg, p) THEN Denied0
    ELSE Ran({Abs(p)})

\* Tools(DefaultTools).find(name).exec
\* searchFiles: the path defaults to ".", is refused when excluded, is
\* looked up as given and then globbed under the working directory
searchFiles(cfg, path) ==
  LET p == IF path = <<>> THEN <<".">> ELSE path IN
    IF IsExcluded(cfg, p) THEN Denied0
    ELSE Ran({Abs(p), Abs(Join(WorkingDir, p))})

\* DefaultTools after the init functions of the package have run, in the
\* order of their files: each entry's Function.Name and its exec
DefaultTools ==
  << [name |-> "diff", exec |-> "diff"],
     [name |-> "filetype", exec |-> "filetype"],
     [name |-> "find", exec |-> "find"],
     [name |-> "mkdir", exec |-> "mkdir"],
     [name |-> "grep", exec |-> "grep"],
     [name |-> "list_files", exec |-> "listFiles"],
     [name |-> "read_file", exec |-> "readFile"],
     [name |-> "search_files", exec |-> "searchFile"],
     [name |-> "search_files", exec |-> "searchFiles"],
     [name |-> "write_file", exec |-> "writeFile"] >>

\* Tools.find: the index of the first entry with this name, 0 when none
ToolsFind(name) ==
  LET hits == {i \in 1..Len(DefaultTools) : DefaultTools[i].name = name} IN
    IF hits = {} THEN 0 ELSE CHOOSE i \in hits : \A j \in hits : i <= j

\* x.exec(*cfg, toolCall.Input, workingDir) for the executor of an entry
RunExec(exec, cfg, path) ==
  CASE exec = "readFile" -> readFile(cfg, path)
    [] exec = "writeFile" -> writeFile(cfg, path)
    [] exec = "listFiles" -> listFiles(cfg, path)
    [] exec = "searchFile" -> searchFile(cfg, path)
    [] exec = "searchFiles" -> searchFiles(cfg, path)
    [] exec = "grep" -> grep(cfg, path)
    [] exec = "find" -> find(cfg, path)
    [] exec = "mkdir" -> mkdir(cfg, path)
    [] exec = "filetype" -> filetype(cfg, path)
    [] exec = "diff" -> diff(cfg, path)

\* the executor ExecuteTool runs for a registered name
Executor(name, cfg, path) == RunExec(DefaultTools[ToolsFind(name)].exec, cfg, path)

NoUse == [name |-> "", path |-> <<>>]
NoResult == [content |-> <<>>, isError |-> FALSE]

ToolsInit ==
  /\ maxPath \in {ShortPathLen, MaxPathLen}
  /\ excludePatterns = <<>>
  /\ toolPc = "idle"
  /\ toolUse = NoUse
  /\ toolResult = NoResult
  /\ touched = {}

\* Session.executeTool calls tools.ExecuteTool(s.config, tool, s.workingDir)
CallTool ==
  /\ toolPc = "idle"
  /\ \E n \in Registry \cup UnknownNames, path \in Strings(maxPath) :
       toolUse' = [name |-> n, path |-> path]
  /\ \E cfg \in ExcludeChoices : excludePatterns' = cfg
  /\ toolPc' = "called"
  /\ toolResult' = NoResult
  /\ touched' = {}
  /\ UNCHANGED maxPath
  /\ UNCHANGED <<streamVars, sessVars, uiVars, enhVars, moreVars>>

\* ExecuteTool for a name that find does not know
ExecuteUnknown ==
  /\ toolPc = "called"
  /\ toolUse.name \notin Registry
  /\ toolResult' = [content |-> <<"Unknown tool: ", toolUse.name>>, isError |-> TRUE]
  /\ toolPc' = "returned"
  /\ UNCHANGED <<maxPath, excludePatterns, toolUse, touched>>
  /\ UNCHANGED <<streamVars, sessVars, uiVars, enhVars, moreVars>>

\* ExecuteTool for a registered name: the executor runs; its error or its
\* output becomes the Content.  A panic of the executor is not recovered.
ExecuteKnown ==
  /\ toolPc = "called"
  /\ toolUse.name \in Registry
  /\ LET r == Executor(toolUse.name, excludePatterns, toolUse.path) IN
       /\ touched' = r.touched
       /\ toolPc' = IF r.kind = "panic" THEN "crashed" ELSE "returned"
       /\ toolResult' =
            CASE r.kind = "panic" -> NoResult
              [] r.kind = "denied" -> [content |-> <<"Error: ", "denied">>, isError |-> TRUE]
              [] r.kind = "ran" -> [content |-> <<"output">>, isError |-> FALSE]
  /\ UNCHANGED <<maxPath, excludePatterns, toolUse>>
  /\ UNCHANGED <<streamVars, sessVars, uiVars, enhVars, moreVars>>

\* the result is taken by the caller and the call's frame is gone; the next
\* call may come
ToolReturn ==
  /\ toolPc = "returned"
  /\ toolPc' = "idle"
  /\ excludePatterns' = <<>>
  /\ toolUse' = NoUse
  /\ toolResult' = NoResult
  /\ touched' = {}
  /\ UNCHANGED maxPath
  /\ UNCHANGED <<streamVars, sessVars, uiVars, enhVars, moreVars>>

\* the executors that start a subprocess and wait for it with cmd.Run()
Subprocess == {"find", "grep", "diff"}

\* ExecuteTool inside an executor whose subprocess does not exit: cmd.Run()
\* was started with exec.Command, without a context, and does not return
ExecuteBlocks ==
  /\ toolPc = "called"
  /\ toolUse.name \in Subprocess
  /\ Executor(toolUse.name, excludePatterns, toolUse.path).kind = "ran"
  /\ toolPc' = "blocked"
  /\ UNCHANGED <<maxPath, excludePatterns, toolUse, toolResult, touched>>
  /\ UNCHANGED <<streamVars, sessVars, uiVars, enhVars, moreVars>>

ToolsNext == CallTool \/ ExecuteUnknown \/ ExecuteKnown \/ ExecuteBlocks \/ ToolReturn

\* ============================================================ terminal UI
\* the kinds of chunk the provider delivers
ChunkKinds == {ChunkMessage, ChunkThink, ChunkToolCall}

\* the answers a provider may give to one prompt
Scripts == UNION {[1..l -> ChunkKinds] : l \in 1..MaxChunks}

NoEvent == [k |-> "none", n |-> 0]
Event(k, n) == [k |-> k, n |-> n]

\* the event StartStream sends for a chunk
EventOf(typ) ==
  CASE typ = ChunkMessage -> "stream-chunk"
    [] typ = ChunkThink -> "stream-think"
    [] typ = ChunkToolCall -> "tool-call-requested"

UiInit ==
  /\ sessAt = "idle"
  /\ outbox = NoEvent
  /\ remaining = <<>>
  /\ nSent = 0
  /\ listeners = 0
  /\ inflight = {}
  /\ handled = <<>>
  /\ uiPendingTool = FALSE
  /\ uiThinking = FALSE
  /\ uiTyping = FALSE
  /\ waitingPrompts = 0
  /\ uiTurns = 0
  /\ uiEscs = 0

\* StartStream's range loop arriving at its next send on s.events: the event
\* of the next chunk, or EndStream's stream-ended when the channel is closed
RangeNext(rem) ==
  /\ nSent' = nSent + 1
  /\ IF rem = <<>>
       THEN /\ outbox' = Event("stream-ended", nSent + 1)
            /\ remaining' = <<>>
            /\ sessAt' = "ending"
       ELSE /\ outbox' = Event(EventOf(Head(rem)), nSent + 1)
            /\ remaining' = Tail(rem)
            /\ sessAt' = IF Head(rem) = ChunkToolCall THEN "asking" ELSE "range"

\* sendFullContext has the mutex: the session starts the turn and arrives at
\* its send of stream-started
TurnStart ==
  /\ \E script \in Scripts : remaining' = script
  /\ outbox' = Event("stream-started", nSent + 1)
  /\ nSent' = nSent + 1
  /\ sessAt' = "started"

\* handleSubmit outside tool-permission mode, refused while m.typing or
\* m.thinking: the batch sends the user prompt and starts one listen command.
\* The session starts the turn at once when it is idle; else the prompt's
\* SendMessage goroutine waits for the mutex.
handleSubmit ==
  /\ ~uiPendingTool
  /\ ~uiTyping /\ ~uiThinking
  /\ uiTurns < MaxPrompts
  /\ uiTurns' = uiTurns + 1
  /\ uiThinking' = TRUE
  /\ handled' = <<>>
  /\ listeners' = listeners + 1
  /\ IF sessAt = "idle"
       THEN TurnStart /\ UNCHANGED waitingPrompts
       ELSE /\ waitingPrompts' = waitingPrompts + 1
            /\ UNCHANGED <<sessAt, outbox, remaining, nSent>>
  /\ UNCHANGED <<inflight, uiPendingTool, uiTyping, uiEscs>>
  /\ UNCHANGED <<streamVars, sessVars, toolVars, enhVars, moreVars>>

\* a listen command receives from m.in what the session sends on s.events;
\* the session goes on to its next send, or waits for the permit
listen ==
  /\ outbox # NoEvent
  /\ listeners > 0
  /\ listeners' = listeners - 1
  /\ inflight' = inflight \cup {outbox}
  /\ CASE sessAt = "asking" ->
            /\ sessAt' = "wait_permit"
            /\ outbox' = NoEvent
            /\ UNCHANGED <<remaining, nSent, waitingPrompts>>
       [] sessAt = "ending" /\ waitingPrompts = 0 ->
            /\ sessAt' = "idle"
            /\ outbox' = NoEvent
            /\ UNCHANGED <<remaining, nSent, waitingPrompts>>
       [] sessAt = "ending" /\ waitingPrompts > 0 ->
            /\ waitingPrompts' = waitingPrompts - 1
            /\ TurnStart
       [] OTHER -> RangeNext(remaining) /\ UNCHANGED waitingPrompts
  /\ UNCHANGED <<handled, uiPendingTool, uiThinking, uiTyping, uiTurns, uiEscs>>
  /\ UNCHANGED <<streamVars, sessVars, toolVars, enhVars, moreVars>>

\* Update receives the message of a finished listen command.  Every case
\* but stream-ended returns a new listen command.
Update(e) ==
  /\ e \in inflight
  /\ inflight' = inflight \ {e}
  /\ handled' = IF e.k \in {"stream-chunk", "stream-think"} THEN Append(handled, e.n)
                ELSE handled
  /\ uiPendingTool' = IF e.k = "tool-call-requested" THEN TRUE ELSE uiPendingTool
  /\ uiThinking' =
       CASE e.k = "stream-started" -> TRUE
         [] e.k = "stream-chunk" -> FALSE
         [] e.k \in {"stream-ended", "tool-call-requested"} -> FALSE
         [] OTHER -> uiThinking
  /\ uiTyping' =
       CASE e.k = "stream-started" -> FALSE
         [] e.k = "stream-chunk" -> uiThinking \/ uiTyping
         [] e.k \in {"stream-ended", "tool-call-requested"} -> FALSE
         [] OTHER -> uiTyping
  /\ listeners' = IF e.k = "stream-ended" THEN listeners ELSE listeners + 1
  /\ UNCHANGED <<sessAt, outbox, remaining, nSent, waitingPrompts, uiTurns, uiEscs>>
  /\ UNCHANGED <<streamVars, sessVars, toolVars, enhVars, moreVars>>

\* handleToolCallResponse: the decision goes out on m.out and one more listen
\* command is returned.  On a refusal StartStream continues its range loop; on
\* a grant it runs the tool and enters sendFullContext again, with the mutex
\* held.  m.thinking and m.typing stay as OnToolCallReceived left them.
handleToolCallResponse ==
  /\ uiPendingTool
  /\ sessAt = "wait_permit"
  /\ uiPendingTool' = FALSE
  /\ listeners' = listeners + 1
  /\ \E granted \in BOOLEAN :
       IF granted
         THEN /\ sessAt' = "blocked"
              /\ UNCHANGED <<outbox, remaining, nSent>>
         ELSE RangeNext(remaining)
  /\ UNCHANGED <<inflight, handled, uiThinking, uiTyping, waitingPrompts, uiTurns, uiEscs>>
  /\ UNCHANGED <<streamVars, sessVars, toolVars, enhVars, moreVars>>

\* handleKeyPress, Esc: cancel-stream goes out on m.out while a stream is
\* shown; InteractiveMode has no case for it; no listen command is returned
handleKeyEsc ==
  /\ uiEscs < MaxCancels
  /\ uiThinking \/ uiTyping
  /\ uiEscs' = uiEscs + 1
  /\ UNCHANGED <<sessAt, outbox, remaining, nSent, listeners, inflight, handled,
                 uiPendingTool, uiThinking, uiTyping, waitingPrompts, uiTurns>>
  /\ UNCHANGED <<streamVars, sessVars, toolVars, enhVars, moreVars>>

UiNext ==
  \/ handleSubmit \/ listen \/ handleToolCallResponse \/ handleKeyEsc
  \/ \E e \in inflight : Update(e)

\* ========================================================= enhanceMessage
\* A message is a sequence of words; a word is a string.  "@a" and "@b" tag
\* the files a and b.
At == <<"@">>
TagA == <<"@", "a">>
TagB == <<"@", "b">>
Words == {<<"w">>, TagA, TagB}

MaxWords == 3

EnhMessages == UNION {[1..l -> Words] : l \in 0..MaxWords}

\* fileReader's error
NoFile == << <<"ENOENT">> >>

\* what the files hold: a may quote its own tag
FileChoices ==
  {[n \in {<<"a">>, <<"b">>} |-> IF n = <<"a">> THEN ca ELSE cb] :
     ca \in {<< <<"w">> >>, <<TagA>>, NoFile}, cb \in {<< <<"w">> >>, NoFile}}

\* an item of the returned message: a word of the text, or an appended block
\* "You can see the content of <label> here:" with the data in a code fence
Word(w) == [t |-> "word", label |-> w, data |-> <<>>]
Block(label, data) == [t |-> "block", label |-> label, data |-> data]

AsItems(msg) == [i \in 1..Len(msg) |-> Word(msg[i])]

\* reTaggedFilename.FindStringSubmatch: the leftmost match and its one group,
\* or nil
FindStringSubmatch(msg) ==
  LET T == {i \in 1..Len(msg) : HasPrefix(msg[i], At)} IN
    IF T = {} THEN <<>>
    ELSE LET first == CHOOSE i \in T : \A j \in T : i <= j IN
           <<msg[first], msg[first]>>

\* strings.ReplaceAll(message, old, new) on the text so far, blocks included
ReplaceAllItems(items, old, new) ==
  [i \in 1..Len(items) |->
     [t |-> items[i].t,
      label |-> IF items[i].label = old THEN new ELSE items[i].label,
      data |-> [k \in 1..Len(items[i].data) |->
                  IF items[i].data[k] = old THEN new ELSE items[i].data[k]]]]

\* one pass of the loop over matches
EnhanceOne(st, files, tag) ==
  LET fn == TrimPrefix(tag, At) IN
    IF files[fn] = NoFile
      THEN [items |-> st.items, calls |-> Append(st.calls, fn)]
      ELSE [items |-> Append(ReplaceAllItems(st.items, tag, fn), Block(tag, files[fn])),
            calls |-> Append(st.calls, fn)]

RECURSIVE EnhanceAll(_, _, _)
EnhanceAll(st, files, matches) ==
  IF matches = <<>> THEN st
  ELSE EnhanceAll(EnhanceOne(st, files, Head(matches)), files, Tail(matches))

enhanceMessage(msg, files) ==
  EnhanceAll([items |-> AsItems(msg), calls |-> <<>>], files, FindStringSubmatch(msg))

EnhInit ==
  /\ enhPc = "idle"
  /\ enhIn = <<>>
  /\ enhFiles = [n \in {<<"a">>, <<"b">>} |-> NoFile]
  /\ enhOut = <<>>
  /\ readerCalls = <<>>

EnhanceCall ==
  /\ enhPc = "idle"
  /\ enhPc' = "called"
  /\ \E msg \in EnhMessages : enhIn' = msg
  /\ \E files \in FileChoices : enhFiles' = files
  /\ enhOut' = <<>>
  /\ readerCalls' = <<>>
  /\ UNCHANGED <<streamVars, sessVars, toolVars, uiVars, moreVars>>

Enhance ==
  /\ enhPc = "called"
  /\ enhPc' = "done"
  /\ enhOut' = enhanceMessage(enhIn, enhFiles).items
  /\ readerCalls' = enhanceMessage(enhIn, enhFiles).calls
  /\ UNCHANGED <<enhIn, enhFiles>>
  /\ UNCHANGED <<streamVars, sessVars, toolVars, uiVars, moreVars>>

EnhanceReturn ==
  /\ enhPc = "done"
  /\ enhPc' = "idle"
  /\ enhIn' = <<>>
  /\ enhFiles' = [n \in {<<"a">>, <<"b">>} |-> NoFile]
  /\ enhOut' = <<>>
  /\ readerCalls' = <<>>
  /\ UNCHANGED <<streamVars, sessVars, toolVars, uiVars, moreVars>>

EnhNext == EnhanceCall \/ Enhance \/ EnhanceReturn

\* ============================================== the provider's chunk classifier
\* how many tool-call fragments one delta carries at most
MaxCalls == 2

\* how long the content and the reasoning of one delta get
MaxText == 2

\* one decoded line of the response: whether it has a choice, and that
\* choice's Delta.ToolCalls, Delta.Content and Delta.Reasoning (texts by length)
Deltas ==
  [choices : BOOLEAN,
   toolCalls : UNION {[1..n -> ToolNames] : n \in 0..MaxCalls},
   content : 0..MaxText,
   reasoning : 0..MaxText]

ClsChunk(typ, text, tool) == [typ |-> typ, content |-> text, tool |-> tool]

\* the three if-statements at the end of the read loop, with the context
\* live and room in the channel: one tool-call chunk per entry of
\* Delta.ToolCalls, then a message chunk, then a think chunk
ChunksOfDelta(d) ==
  IF ~d.choices THEN <<>>
  ELSE [i \in 1..Len(d.toolCalls) |-> ClsChunk(ChunkToolCall, 0, d.toolCalls[i])]
         \o (IF d.content # 0 THEN <<ClsChunk(ChunkMessage, d.content, NoTool)>> ELSE <<>>)
         \o (IF d.reasoning # 0 THEN <<ClsChunk(ChunkThink, d.reasoning, NoTool)>> ELSE <<>>)

ClsInit ==
  /\ clsPc = "idle"
  /\ clsDelta = [choices |-> FALSE, toolCalls |-> <<>>, content |-> 0, reasoning |-> 0]
  /\ clsOut = <<>>

\* json.Unmarshal has decoded a line
ClsDecode ==
  /\ clsPc = "idle"
  /\ \E d \in Deltas : clsDelta' = d
  /\ clsOut' = <<>>
  /\ clsPc' = "called"
  /\ UNCHANGED <<streamVars, sessVars, toolVars, uiVars, enhVars>>
  /\ UNCHANGED <<proseVars, fileVars, earlyPanics>>

ClsEmit ==
  /\ clsPc = "called"
  /\ clsOut' = ChunksOfDelta(clsDelta)
  /\ clsPc' = "done"
  /\ UNCHANGED <<streamVars, sessVars, toolVars, uiVars, enhVars>>
  /\ UNCHANGED <<clsDelta, proseVars, fileVars, earlyPanics>>

\* the loop goes back to reading the next line
ClsNextLine ==
  /\ clsPc = "done"
  /\ clsPc' = "idle"
  /\ clsDelta' = [choices |-> FALSE, toolCalls |-> <<>>, content |-> 0, reasoning |-> 0]
  /\ clsOut' = <<>>
  /\ UNCHANGED <<streamVars, sessVars, toolVars, uiVars, enhVars>>
  /\ UNCHANGED <<proseVars, fileVars, earlyPanics>>

ClsNext == ClsDecode \/ ClsEmit \/ ClsNextLine

\* ======================================= onStreamEnded and actuallyAToolCall
\* the final content as a sequence of pieces: "R" the text
\* "Request to use tool: ", "B" a backtick, "W" the text " with args: ",
\* "NL" a newline, "n" any other character
Pieces == {"R", "B", "W", "NL", "n"}

\* how many pieces the final content gets
MaxProse == 5

Prose == UNION {[1..n -> Pieces] : n \in 0..MaxProse}

RECURSIVE TrimLeft(_)
TrimLeft(s) == IF s # <<>> /\ Head(s) = "NL" THEN TrimLeft(Tail(s)) ELSE s

RECURSIVE TrimRight(_)
TrimRight(s) ==
  IF s # <<>> /\ s[Len(s)] = "NL" THEN TrimRight(SubSeq(s, 1, Len(s) - 1)) ELSE s

\* strings.TrimSpace, the last step of stripThinkBlock
TrimSpace(s) == TrimRight(TrimLeft(s))

HasNewline(s) == \E i \in 1..Len(s) : s[i] = "NL"

\* reToolCallCheck: ^Request to use tool: .* with args: .*
\* ('.' does not match a newline, and nothing anchors the end)
reToolCallCheck(s) ==
  /\ s # <<>>
  /\ s[1] = "R"
  /\ \E i \in 2..Len(s) : s[i] = "W" /\ \A j \in 2..(i - 1) : s[j] # "NL"

\* where the closing backtick of reToolParse can stand:
\* ^Request to use tool: `(.*)` with args: (.*)$
ParseSplits(s) ==
  IF Len(s) < 4 \/ HasNewline(s) \/ s[1] # "R" \/ s[2] # "B" THEN {}
  ELSE {k \in 3..(Len(s) - 1) : s[k] = "B" /\ s[k + 1] = "W"}

Greatest(S) == CHOOSE k \in S : \A j \in S : j <= k

\* reToolParse.FindStringSubmatch: <<>> for nil, else the two groups, the
\* first one greedy
reToolParse(s) ==
  IF ParseSplits(s) = {} THEN <<>>
  ELSE LET k == Greatest(ParseSplits(s))
       IN  <<SubSeq(s, 3, k - 1), SubSeq(s, k + 2, Len(s))>>

\* EventToolCall{}
NoCall == [name |-> <<>>, args |-> <<>>]

\* actuallyAToolCall: matches[1] panics when reToolParse found nothing, and
\* the second result is false on both returns
actuallyAToolCall(finalContent) ==
  IF ~reToolCallCheck(finalContent)
    THEN [panic |-> FALSE, ev |-> NoCall, yes |-> FALSE]
  ELSE IF reToolParse(finalContent) = <<>>
    THEN [panic |-> TRUE, ev |-> NoCall, yes |-> FALSE]
  ELSE [panic |-> FALSE,
        ev |-> [name |-> reToolParse(finalContent)[1],
                args |-> reToolParse(finalContent)[2]],
        yes |-> FALSE]

ProseInit ==
  /\ prosePc = "idle"
  /\ proseIn = <<>>
  /\ proseOut = [panic |-> FALSE, ev |-> NoCall, yes |-> FALSE]
  /\ injected = <<>>

\* a stream ended with this final content
StreamEnded ==
  /\ prosePc = "idle"
  /\ \E s \in Prose : proseIn' = s
  /\ injected' = <<>>
  /\ prosePc' = "called"
  /\ UNCHANGED <<streamVars, sessVars, toolVars, uiVars, enhVars>>
  /\ UNCHANGED <<proseOut, clsVars, fileVars, earlyPanics>>

\* onStreamEnded: strip, ask actuallyAToolCall, inject the event when it
\* says yes
onStreamEnded ==
  /\ prosePc = "called"
  /\ LET r == actuallyAToolCall(TrimSpace(proseIn))
     IN  /\ proseOut' = r
         /\ prosePc' = IF r.panic THEN "crashed" ELSE "done"
         /\ injected' = IF ~r.panic /\ r.yes THEN <<r.ev>> ELSE <<>>
  /\ UNCHANGED <<streamVars, sessVars, toolVars, uiVars, enhVars>>
  /\ UNCHANGED <<proseIn, clsVars, fileVars, earlyPanics>>

\* the UI goes on to the next turn
ProseReturn ==
  /\ prosePc = "done"
  /\ prosePc' = "idle"
  /\ proseIn' = <<>>
  /\ proseOut' = [panic |-> FALSE, ev |-> NoCall, yes |-> FALSE]
  /\ injected' = <<>>
  /\ UNCHANGED <<streamVars, sessVars, toolVars, uiVars, enhVars>>
  /\ UNCHANGED <<clsVars, fileVars, earlyPanics>>

ProseNext == StreamEnded \/ onStreamEnded \/ ProseReturn

\* ================================================================ files.Context
Paths == {"a", "b"}

\* cfg.MaxFileSize, and the sizes os.Stat reports up to one more
MaxSize == 2

\* how many operations are made on one context
MaxOps == 4

RECURSIVE SumSizes(_, _)
SumSizes(f, S) ==
  IF S = {} THEN 0
  ELSE LET p == CHOOSE q \in S : TRUE IN f[p] + SumSizes(f, S \ {p})

\* the sum of Size over the files held
HeldSize == SumSizes(ctxFiles, DOMAIN ctxFiles)

FilesInit ==
  /\ ctxFiles = [p \in {} |-> 0]
  /\ totalSize = 0
  /\ ctxOps = 0

\* AddFile: an error return when the file is missing, too large, excluded
\* or unreadable; else the entry is stored and its size added to totalSize
AddFile ==
  /\ ctxOps < MaxOps
  /\ ctxOps' = ctxOps + 1
  /\ \E p \in Paths, size \in 0..(MaxSize + 1), readable \in BOOLEAN :
       IF size > MaxSize \/ ~readable
         THEN UNCHANGED <<ctxFiles, totalSize>>
         ELSE /\ ctxFiles' = [q \in DOMAIN ctxFiles \cup {p} |->
                                IF q = p THEN size ELSE ctxFiles[q]]
              /\ totalSize' = totalSize + size
  /\ UNCHANGED <<streamVars, sessVars, toolVars, uiVars, enhVars>>
  /\ UNCHANGED <<clsVars, proseVars, earlyPanics>>

RemoveFile ==
  /\ ctxOps < MaxOps
  /\ ctxOps' = ctxOps + 1
  /\ \E p \in Paths :
       IF p \in DOMAIN ctxFiles
         THEN /\ totalSize' = totalSize - ctxFiles[p]
              /\ ctxFiles' = [q \in DOMAIN ctxFiles \ {p} |-> ctxFiles[q]]
         ELSE UNCHANGED <<ctxFiles, totalSize>>
  /\ UNCHANGED <<streamVars, sessVars, toolVars, uiVars, enhVars>>
  /\ UNCHANGED <<clsVars, proseVars, earlyPanics>>

Clear ==
  /\ ctxOps < MaxOps
  /\ ctxOps' = ctxOps + 1
  /\ ctxFiles' = [p \in {} |-> 0]
  /\ totalSize' = 0
  /\ UNCHANGED <<streamVars, sessVars, toolVars, uiVars, enhVars>>
  /\ UNCHANGED <<clsVars, proseVars, earlyPanics>>

FilesNext == AddFile \/ RemoveFile \/ Clear

\* =============================== Close and Wait on a Stream not yet started
\* Stream.Close while s.cancel is nil: the call of a nil func panics
CloseUnset ==
  /\ ~cancelSet
  /\ "Close" \notin earlyPanics
  /\ earlyPanics' = earlyPanics \cup {"Close"}
  /\ UNCHANGED <<streamVars, sessVars, toolVars, uiVars, enhVars>>
  /\ UNCHANGED <<clsVars, proseVars, fileVars>>

\* Stream.Wait while s.waiter is nil: Done() on a nil interface panics
WaitUnset ==
  /\ waiter = "unset"
  /\ "Wait" \notin earlyPanics
  /\ earlyPanics' = earlyPanics \cup {"Wait"}
  /\ UNCHANGED <<streamVars, sessVars, toolVars, uiVars, enhVars>>
  /\ UNCHANGED <<clsVars, proseVars, fileVars>>

\* ========================================================= specifications
ProducerStep == ProducerSend \/ ProducerEOF \/ ProducerCtxDone
StartStep ==
  \/ StartSetup \/ StartOnStart \/ LoopCheck \/ SelectDone \/ SelectRecv
  \/ Fold \/ OnChunk \/ OnEnd \/ Finish

StreamNext ==
  \/ ProducerSend \/ ProducerEOF \/ ProducerCtxDone \/ ProducerReadErr
  \/ StartConnect \/ StartConnectErr
  \/ StartSetup \/ StartOnStart \/ LoopCheck \/ SelectDone \/ SelectRecv
  \/ Fold \/ OnChunk \/ OnEnd \/ Finish
  \/ Close \/ WaitCall \/ WaitReturn \/ CancelOuter

Init ==
  /\ StreamInit /\ SessionInit /\ ToolsInit /\ UiInit /\ EnhInit
  /\ ClsInit /\ ProseInit /\ FilesInit /\ earlyPanics = {}

\* the Session half is idle in the Stream specification
InitStream ==
  Init /\ limits = [prompts |-> 1, chunks |-> MaxChunks] /\ maxPath = MaxPathLen

SpecStream == InitStream /\ [][StreamNext]_vars

\* the Go scheduler runs every runnable goroutine: the producer and Start make
\* progress whenever they can, and a blocked Wait returns once it can.  Nothing
\* obliges a caller to Close or the process to be interrupted.
FairSpecStream ==
  /\ SpecStream
  /\ WF_vars(ProducerStep)
  /\ WF_vars(StartStep)
  /\ WF_vars(WaitReturn)

\* the tools are idle under the Session specification
InitSession == Init /\ maxPath = MaxPathLen

SpecSession == InitSession /\ [][SessionNext]_vars

\* the Stream and the Session are idle while tools are exercised
InitTools ==
  /\ Init
  /\ limits = [prompts |-> 1, chunks |-> MaxChunks]
  /\ maxPath = MaxPathLen

SpecTools == InitTools /\ [][ToolsNext]_vars

\* ExecuteTool's own steps are taken when they can be: the refusal of an
\* unknown name and the return to the session.  Whether an executor comes
\* back is up to what it waits for, and no fairness is assumed of it.
InitShortTools ==
  /\ Init
  /\ limits = [prompts |-> 1, chunks |-> MaxChunks]
  /\ maxPath = ShortPathLen

FairSpecTools ==
  /\ InitShortTools
  /\ [][ToolsNext]_vars
  /\ WF_vars(ExecuteUnknown)
  /\ WF_vars(ToolReturn)

\* the Stream, the Session and the tools are idle under the UI and under
\* enhanceMessage
InitUI ==
  Init /\ limits = [prompts |-> 1, chunks |-> MaxChunks] /\ maxPath = MaxPathLen

SpecUI == InitUI /\ [][UiNext]_vars

InitEnhance ==
  Init /\ limits = [prompts |-> 1, chunks |-> MaxChunks] /\ maxPath = MaxPathLen

SpecEnhance == InitEnhance /\ [][EnhNext]_vars

\* the other parts are idle while the classifier, onStreamEnded and the file
\* context are exercised
InitClassify ==
  Init /\ limits = [prompts |-> 1, chunks |-> MaxChunks] /\ maxPath = MaxPathLen

SpecClassify == InitClassify /\ [][ClsNext]_vars

InitProse ==
  Init /\ limits = [prompts |-> 1, chunks |-> MaxChunks] /\ maxPath = MaxPathLen

SpecProse == InitProse /\ [][ProseNext]_vars

InitFiles ==
  Init /\ limits = [prompts |-> 1, chunks |-> MaxChunks] /\ maxPath = MaxPathLen

SpecFiles == InitFiles /\ [][FilesNext]_vars

\* the Stream with callers that may call Close and Wait at any moment
InitCallers ==
  Init /\ limits = [prompts |-> 1, chunks |-> MaxChunks] /\ maxPath = MaxPathLen

CallersNext == StreamNext \/ CloseUnset \/ WaitUnset

SpecCallers == InitCallers /\ [][CallersNext]_vars

\* every SendMessage goroutine that can take a step takes one, the Observer
\* receiving whatever event it sends.  Nothing obliges the Observer to send
\* a command, the provider to fail or the process to be interrupted.
FairSpecSession ==
  /\ SpecSession
  /\ \A g \in Goroutines : WF_vars(GoroutineStep(g))

\* ---------------------------------------------------- claims on the Stream
StartReturnedNil ==
  /\ sPc = "returned"
  /\ startRet = "nil"
  /\ Len(onEndLog) = 1
  /\ waiter = "done"

\* C1: when the provider has closed the chunk channel, and no tool-call chunk
\* is received, Close() is never called and the outer context is never
\* cancelled, the receive loop eventually exits, onEnd is invoked, Start
\* returns nil and the waiter is released so that Wait() unblocks.
C1_StartTerminatesOnClose ==
  (chanClosed /\ sPc # "returned")
    ~> (StartReturnedNil \/ toolCall # NoTool \/ closeCalls > 0 \/ ctxOuter)

\* C2: once a tool_call chunk has been folded, the loop receives nothing more:
\* the chunk held by the loop, the content and reasoning accumulators stay as
\* they are, and the only chunk still passed to onChunk is the tool-call chunk
\* itself, once.
C2_ToolCallEndsLoop ==
  [][toolCall # NoTool =>
       /\ chunk' = chunk
       /\ content' = content
       /\ reasoning' = reasoning
       /\ zeroChunks' = zeroChunks
       /\ \/ onChunkLog' = onChunkLog
          \/ /\ onChunkLog' = Append(onChunkLog, chunk)
             /\ chunk.tool = toolCall
             /\ \A i \in 1..Len(onChunkLog) : onChunkLog[i].typ # ChunkToolCall]_vars

\* a stream that ended on a tool call while message chunks were still queued
C2_Witness ==
  /\ toolCall # NoTool
  /\ sPc = "returned"
  /\ \E i \in 1..Len(streamChan) : streamChan[i].typ \in {ChunkMessage, ChunkThink}
  /\ \E i \in 1..Len(onChunkLog) : onChunkLog[i].typ = ChunkToolCall

\* C9: after the stream was closed and Wait() has returned, the producer
\* goroutine of StreamMessage eventually leaves its send loop and closes the
\* channel, whatever is still undelivered, without the process-level context
\* being cancelled.
C9_ProducerExitsAfterClose ==
  (waitPc = "returned") ~> (producer = "done" \/ ctxOuter)

\* ------------------------------------------ further claims on the Stream
\* the Content of the message-type chunks of a chunk sequence, in order
RECURSIVE MessageText(_)
MessageText(cs) ==
  IF cs = <<>> THEN <<>>
  ELSE IF Head(cs).typ = ChunkMessage
         THEN <<Head(cs).content>> \o MessageText(Tail(cs))
         ELSE MessageText(Tail(cs))

\* C11: once Wait() has returned, Content() is the concatenation, in delivery
\* order, of the Content of exactly the message chunks that were handed to
\* the onChunk callback, whatever ended the stream.
C11_ContentIsObservedText ==
  waitPc = "returned" => content = MessageText(onChunkLog)

\* Wait() has returned on a stream that was closed with message chunks
\* delivered and others left undelivered
C11_Witness ==
  /\ waitPc = "returned"
  /\ closeCalls > 0
  /\ Len(content) >= 2
  /\ streamChan # <<>>

\* C12: a Wait() that has returned finds the receive loop left, the onEnd
\* callback run and returned, and Start past its done().
C12_WaitAfterOnEnd ==
  waitPc = "returned" => (sPc = "returned" /\ Len(onEndLog) = 1)

\* a Wait() blocked while the loop was running has returned
C12_Witness ==
  /\ waitPc = "returned"
  /\ onChunkLog # <<>>
  /\ Len(onEndLog) = 1

\* C16: when client.StreamMessage fails, Start returns the error and nothing
\* else has happened: no callback ran, no producer or loop was started,
\* Content(), Reasoning() and ToolCall() are empty.
C16_ConnectErrorReturnsAtOnce ==
  startRet = "err" =>
    /\ sPc = "returned"
    /\ onStartCalls = 0 /\ onChunkLog = <<>> /\ zeroChunks = 0 /\ onEndLog = <<>>
    /\ content = <<>> /\ reasoning = <<>> /\ toolCall = NoTool
    /\ producer = "idle" /\ waiter = "unset" /\ ~cancelSet

C16_Witness == startRet = "err" /\ sPc = "returned"

\* the producer stopped on a read error after sending only message chunks
C17_Scenario ==
  /\ readErr
  /\ \A i \in 1..Len(sentLog) : sentLog[i].typ = ChunkMessage

\* C17: when the provider stops mid-stream on a transport error after k message
\* chunks, Start returns with Content() the concatenation of those k chunks
\* and ToolCall() nil (unless the stream is closed or the process interrupted).
C17_ReadErrorKeepsPartialContent ==
  C17_Scenario
    ~> \/ /\ sPc = "returned"
          /\ content = MessageText(sentLog)
          /\ toolCall = NoTool
       \/ closeCalls > 0
       \/ ctxOuter

\* C29: the onChunk callback sees the driver before the chunk is folded:
\* while onChunk(c) is about to run, Content(), Reasoning() and ToolCall()
\* do not reflect c yet.
C29_ObserverBeforeFold ==
  (sPc = "onChunk" /\ chunk # ZeroChunk) =>
    /\ content = MessageText(onChunkLog)
    /\ chunk.typ = ChunkThink => Len(reasoning) < chunk.content
    /\ chunk.typ = ChunkToolCall => toolCall = NoTool

\* the loop has noticed the cancellation or is past its last receive
AfterCancelOutsideSelect ==
  /\ ctxStream
  /\ sPc \in {"fold", "onChunk", "loop", "onEnd", "finish", "returned"}

\* C30: once the stream's context is cancelled by Close(), the loop takes at
\* most the one chunk its select may still pick, never returns to the select
\* after that, and Start returns, however many chunks the channel holds.
C30_CloseStopsWithinOneChunk ==
  /\ [](AfterCancelOutsideSelect => [](sPc # "select"))
  /\ (closeCalls > 0) ~> (sPc = "returned")

\* a closed stream has returned with chunks delivered and chunks left behind
C30_Witness ==
  /\ closeCalls > 0
  /\ sPc = "returned"
  /\ toolCall = NoTool
  /\ onChunkLog # <<>>
  /\ Len(streamChan) >= 2

\* --------------------------------------------------- claims on the Session
ObsIdx == 1..Len(obsLog)
Grants == {"permit-tool-once", "permit-tool-for-session"}

\* tool-result, assistant tool-request, or the plain role of a message
MsgKind(m) ==
  IF m.toolCallID # NoId THEN "tool-result"
  ELSE IF m.toolCall # NoTool THEN "assistant-tool-request"
  ELSE m.role

HistoryKinds == [i \in 1..Len(messages) |-> MsgKind(messages[i])]

\* C3: when a stream yields a tool call that is not in the allow-list and the
\* Observer answers permit-tool-once, the tool runs, the conversation is
\* submitted again and the Observer eventually gets the outcome of the
\* follow-up stream (stream-ended; or its failure, or its own tool request).
C3_ToolRoundTripLive ==
  (\E i \in ObsIdx : obsLog[i].k = "permit-tool-once")
    ~> (\E i, j \in ObsIdx :
          /\ i < j
          /\ obsLog[i].k = "permit-tool-once"
          /\ obsLog[j].k \in {"stream-ended", "stream-error", "tool-call-requested"})

\* the scenario of C4 up to the tool result: one prompt, a stream whose first
\* chunk is a tool call, permit-tool-once, the tool has run
C4_Scenario ==
  /\ nPrompts = 1
  /\ Len(obsLog) = 3
  /\ obsLog[1].k = "stream-started"
  /\ obsLog[2].k = "tool-call-requested"
  /\ obsLog[3].k = "permit-tool-once"
  /\ Len(execLog) = 1

C4_Expected == <<"user", "assistant-tool-request", "tool-result", "assistant">>

\* C4: in the scenario prompt -> tool call -> permit-tool-once -> tool result
\* -> prose the history grows by user, assistant tool-request, tool-result,
\* assistant, in this order: once the tool has run it holds the first three
\* of them, or all four.
C4_FourMessagesInOrder ==
  C4_Scenario =>
    \E n \in 3..4 : HistoryKinds = SubSeq(C4_Expected, 1, n)

GrantedAfterRequest(c) ==
  \E i, j \in ObsIdx :
    /\ i < j
    /\ obsLog[i].k = "tool-call-requested" /\ obsLog[i].call = c
    /\ obsLog[j].k \in Grants /\ obsLog[j].call = c
Denied(c) == \E i \in ObsIdx : obsLog[i].k = "deny-tool" /\ obsLog[i].call = c

\* C5: a tool call has run only if its name was in the allow-list when it ran
\* or the Observer granted that very call after being asked about it; a call
\* the Observer denied has not run.
C5_ExecutionNeedsPermission ==
  \A e \in 1..Len(execLog) :
    LET c == execLog[e].call IN
      /\ c.name \in execLog[e].allow \/ GrantedAfterRequest(c)
      /\ ~Denied(c)

\* a call was denied and did not run, a later call was granted and ran
C5_Witness ==
  /\ \E i \in ObsIdx : obsLog[i].k = "deny-tool"
  /\ \E e \in 1..Len(execLog) : GrantedAfterRequest(execLog[e].call)

\* C6: after permit-tool-for-session for a tool, the session gets to the
\* model's later calls (the conversation is submitted again after the grant)
\* and no call of that name is put to the Observer again.
C6_SessionGrantPersists ==
  /\ [](\A i, j \in ObsIdx :
          (i < j /\ obsLog[i].k = "permit-tool-for-session"
                 /\ obsLog[j].k = "tool-call-requested")
            => obsLog[j].call.name # obsLog[i].call.name)
  /\ (\E i \in ObsIdx : obsLog[i].k = "permit-tool-for-session")
       ~> (\E i, j \in ObsIdx :
             /\ i < j
             /\ obsLog[i].k = "permit-tool-for-session"
             /\ obsLog[j].k \in {"stream-started", "stream-error"})

TurnIdx(g) == {i \in 1..Len(messages) : turnLog[i] = g}

\* C7: a turn during whose stream the Observer sent cancel-stream leaves, once
\* it is over, exactly one message in the history: the user's.
C7_CancelLeavesNoAssistant ==
  \A g \in cancelledTurns :
    (g <= nPrompts /\ stack[g] = <<>>) =>
      /\ Cardinality(TurnIdx(g)) = 1
      /\ \A i \in TurnIdx(g) : MsgKind(messages[i]) = "user"

\* C8: after a cancel-stream sent while a stream is active the Observer
\* eventually receives stream-cancelled.
C8_CancelIsAnswered ==
  (nCancels > 0) ~> (\E i \in ObsIdx : obsLog[i].k = "stream-cancelled")

\* goroutines inside sendFullContext, past the mutex
InTurn == {g \in Goroutines : \E d \in 1..Len(stack[g]) : stack[g][d].pc \notin {"sm_append", "lock"}}

\* C10: at most one provider channel is open at a time and at most one
\* goroutine is inside a turn: a second SendMessage does not reach
\* StreamMessage before the turn in flight is over.
C10_OneStreamInFlight ==
  /\ Cardinality(InFlight) <= 1
  /\ Cardinality(InTurn) <= 1

\* a second SendMessage waits at the mutex while the first turn streams
C10_Witness ==
  \E g, h \in Goroutines :
    /\ g # h
    /\ <<g, 1>> \in InFlight
    /\ Len(stack[g]) = 1 /\ Top(g).stream > 0
    /\ Pc(h) = "lock" /\ Len(stack[h]) = 1

\* C13: every message of the history that carries a tool-call-id is preceded
\* by an assistant message recording the tool call with that id.
C13_ToolResultHasRequest ==
  \A i \in 1..Len(messages) :
    messages[i].toolCallID # NoId =>
      \E j \in 1..(i - 1) :
        /\ messages[j].role = "assistant"
        /\ messages[j].toolCall # NoTool
        /\ messages[j].toolCall.id = messages[i].toolCallID

\* every call the Observer declined has a tool-result message in the history
DeclinedAnswered ==
  \A i \in ObsIdx :
    obsLog[i].k = "deny-tool" =>
      \E m \in 1..Len(messages) : messages[m].toolCallID = obsLog[i].call.id

\* C14: a call the Observer answered with deny-tool is not executed, and a
\* tool-result message for its id, telling the model of the refusal, gets
\* appended to the history.
C14_DenialIsReported ==
  /\ [](\A e \in 1..Len(execLog) : ~Denied(execLog[e].call))
  /\ (\E i \in ObsIdx : obsLog[i].k = "deny-tool") ~> DeclinedAnswered

Within(q) == q = WorkingDir \/ HasPrefix(q, WorkingDir \o <<"/">>)

\* C18: a tool that takes a path never goes to the filesystem outside the
\* working directory, and a relative path that leads out of it (by "../" or
\* into a sibling whose name starts with the working directory's) is
\* answered with an error.
C18_PathsStayInWorkingDir ==
  (toolPc = "returned" /\ toolUse.name \in Registry) =>
    /\ \A q \in touched : Within(q)
    /\ (~IsAbs(toolUse.path) /\ ~Within(Abs(toolUse.path))) => toolResult.isError

\* C19: ExecuteTool always returns a ToolResult; no tool call, whatever its
\* name and its path, makes it panic.
C19_ExecuteToolNeverPanics == toolPc # "crashed"

Mentions(text, word) == \E i \in 1..Len(text) : text[i] = word

\* C20: for a name that is not registered ExecuteTool runs nothing and
\* returns an error result whose message names the requested tool and lists
\* the names of the available tools.
C20_UnknownToolListsAvailable ==
  (toolPc = "returned" /\ toolUse.name \notin Registry) =>
    /\ toolResult.isError
    /\ touched = {}
    /\ Mentions(toolResult.content, toolUse.name)
    /\ \A t \in Registry : Mentions(toolResult.content, t)

\* the Observer's log from the latest stream-started on
LastStarted ==
  LET S == {i \in ObsIdx : obsLog[i].k = "stream-started"} IN
    IF S = {} THEN 0 ELSE CHOOSE i \in S : \A j \in S : j <= i

LastStream == SubSeq(obsLog, LastStarted + 1, Len(obsLog))

\* the text of the stream-chunk events of a stretch of the log
ChunkText(log) ==
  LET cs == SelectSeq(log, LAMBDA e : e.k = "stream-chunk") IN
    [i \in 1..Len(cs) |-> cs[i].text[1]]

EndedEvents(log) == SelectSeq(log, LAMBDA e : e.k = "stream-ended")

\* C23: when a stream that carried text and no tool call completes, the
\* turn appends exactly one assistant message, whose content is the
\* accumulated text, and the Observer has received exactly one stream-ended
\* event, carrying the same text.
C23_CompletionRecordsAnswer ==
  [][(/\ Len(messages') = Len(messages) + 1
      /\ messages'[Len(messages')].role = "assistant"
      /\ ChunkText(LastStream) # <<>>
      /\ \A i \in 1..Len(LastStream) : LastStream[i].k # "tool-call-requested")
     =>
     /\ messages'[Len(messages')].content = [kind |-> "text", text |-> ChunkText(LastStream)]
     /\ EndedEvents(LastStream) = <<Obs("stream-ended", NoTool, ChunkText(LastStream))>>
     /\ obsLog' = obsLog
     /\ \E g \in Goroutines :
          /\ mu = g
          /\ Cardinality({i \in 1..Len(messages') :
                            turnLog'[i] = g /\ messages'[i].role = "assistant"}) = 1]_vars

\* a turn has ended on an answer of several chunks
C23_Witness ==
  /\ messages # <<>>
  /\ messages[Len(messages)].role = "assistant"
  /\ Len(messages[Len(messages)].content.text) >= 2
  /\ obsLog[Len(obsLog)] = Obs("stream-ended", NoTool, messages[Len(messages)].content.text)
  /\ mu = 0

C28_OneUserMessagePerPrompt ==
  \A g \in InTurn :
    Cardinality({i \in TurnIdx(g) :
                   messages[i] = Message("user", "prompt", <<g>>, NoId)}) = 1

\* C21: every tool execution is bounded by a deadline: a call whose subprocess
\* never exits still returns to the session.
C21_ExecuteToolReturns == (toolPc = "blocked") ~> (toolPc = "returned")

\* C25: whatever path a call passes, Sanitize returns a path that does not
\* start with "/" and has no "../" in it.
C25_SanitizeIsRelative ==
  toolPc = "called" =>
    /\ ~HasPrefix(Sanitize(toolUse.path), <<"/">>)
    /\ ~Contains(Sanitize(toolUse.path), <<".", ".", "/">>)

\* the directories an exclude list names, as "vendor/" names vendor
ExcludedDirs(cfg) ==
  {TrimSuffix(cfg[i], <<"/">>) : i \in {j \in 1..Len(cfg) : HasSuffix(cfg[j], <<"/">>)}}

\* a path that is one of these directories or goes through one
InsideExcludedDir(cfg, path) ==
  \E i \in 1..Len(Split(path, <<>>)) : Split(path, <<>>)[i] \in ExcludedDirs(cfg)

\* C26: IsExcluded is true of every absolute path, true of a relative path
\* whose base name matches an exclude pattern or that lies in an excluded
\* directory, and false of every other relative path.
C26_IsExcludedExact ==
  (toolPc = "called" /\ ~IsExcludedPanics(toolUse.path)) =>
    (IsExcluded(excludePatterns, toolUse.path) <=>
       \/ IsAbs(toolUse.path)
       \/ MatchesPattern(excludePatterns, toolUse.path)
       \/ InsideExcludedDir(excludePatterns, toolUse.path))

\* C22: within a turn Update handles the stream-chunk and stream-think events
\* in the order in which the session sent them, however the listen commands
\* are scheduled, also after a tool-permission round trip or a cancellation.
C22_ChunksHandledInOrder ==
  \A i, j \in 1..Len(handled) : i < j => handled[i] < handled[j]

\* the tags of a message whose file can be read
ReadableTags(msg, files) ==
  {msg[i] : i \in {j \in 1..Len(msg) :
                     HasPrefix(msg[j], At) /\ files[TrimPrefix(msg[j], At)] # NoFile}}

\* C27: for every file a message tags as "@path" (and that can be read),
\* enhanceMessage calls the file reader with the path without the "@" and
\* returns a message with a block labelled with that path, without the "@",
\* holding the file's content.
C27_EveryTagEnhanced ==
  enhPc = "done" =>
    \A tag \in ReadableTags(enhIn, enhFiles) :
      LET fn == TrimPrefix(tag, At) IN
        /\ \E i \in 1..Len(readerCalls) : readerCalls[i] = fn
        /\ \E i \in 1..Len(enhOut) : enhOut[i] = Block(fn, enhFiles[fn])

\* InteractiveMode can receive a user-prompt command, whose case appends to
\* s.messages on the loop's own goroutine, without the mutex
LoopCanAppend == imPc = "select" /\ nPrompts < limits.prompts

\* C31: the history has one writer at a time: while a SendMessage goroutine
\* has announced stream-ended and is at its append of the assistant message,
\* the InteractiveMode loop is not in a position to append as well.
C31_HistorySingleWriter ==
  \A g \in Goroutines : Pc(g) = "append" => ~LoopCanAppend

\* InteractiveMode is at, or past, its write of s.permittedTools and has not
\* yet handed the decision over on permitToolCall
LoopAtAllowList ==
  \/ imPc = "select" /\ pendingToolCall # NoTool
  \/ imPc = "permitTrue"

\* the frames that are at StartStream's read of s.permittedTools
AllowListReaders ==
  UNION {{<<g, d>> : d \in {e \in 1..Len(stack[g]) : stack[g][e].pc = "range"}} :
           g \in Goroutines}

\* C32: the allow-list is not read by a stream goroutine while InteractiveMode
\* writes it: from the request for permission until the decision is handed
\* over on permitToolCall no goroutine is at the read.
C32_AllowListHandedOver == LoopAtAllowList => AllowListReaders = {}

\* the name is in the allow-list, the hand-over is still to come and the
\* stream goroutine waits for it
C32_Witness ==
  /\ imPc = "permitTrue"
  /\ permittedTools # {}
  /\ \E g \in Goroutines : Pc(g) = "wait_permit"

\* InteractiveMode is blocked in its send on permitToolCall
LoopForwarding == imPc \in {"permitTrue", "permitFalse"}

Decisions == {"permit-tool-once", "permit-tool-for-session", "deny-tool"}

TurnInProgress == sessAt # "idle"

\* C36: handleSubmit sends the user prompt only in states where no turn is in
\* progress
C36_PromptOnlyWhenIdle == [][uiTurns' = uiTurns + 1 => ~TurnInProgress]_vars

\* ------------------------------------------------ claims on the registry
\* the entries of DefaultTools registered under the name of the call
EntriesNamed(name) == {i \in 1..Len(DefaultTools) : DefaultTools[i].name = name}

\* C40: no two entries of DefaultTools share a name, so a call of ExecuteTool
\* with a registered name ends with the outcome of the own executor of every
\* tool registered under that name
C40_NameRunsOwnExecutor ==
  (toolPc \in {"returned", "crashed"} /\ toolUse.name \in Registry) =>
    \A i \in EntriesNamed(toolUse.name) :
      /\ EntriesNamed(toolUse.name) = {i}
      /\ touched = RunExec(DefaultTools[i].exec, excludePatterns, toolUse.path).touched
      /\ (toolPc = "crashed") =
           (RunExec(DefaultTools[i].exec, excludePatterns, toolUse.path).kind = "panic")

\* ------------------------------------------------- claims on the classifier
\* the single chunk the precedence tool call, reasoning, content gives
OneChunkByPrecedence(d) ==
  IF ~d.choices THEN <<>>
  ELSE IF d.toolCalls # <<>> THEN <<ClsChunk(ChunkToolCall, 0, d.toolCalls[1])>>
  ELSE IF d.reasoning # 0 THEN <<ClsChunk(ChunkThink, d.reasoning, NoTool)>>
  ELSE IF d.content # 0 THEN <<ClsChunk(ChunkMessage, d.content, NoTool)>>
  ELSE <<>>

\* C33: for every delta the classifier emits at most one chunk: the tool-call
\* chunk if the delta carries a tool-call fragment, else the think chunk if it
\* carries reasoning, else the message chunk if its content is not empty,
\* else nothing
C33_OneChunkPerDelta ==
  clsPc = "done" =>
    /\ Len(clsOut) <= 1
    /\ clsOut = OneChunkByPrecedence(clsDelta)

\* --------------------------------------------- claims on actuallyAToolCall
\* the content reads  Request to use tool: `NAME` with args: ARGS  on one
\* line, with this name and these arguments
HasRequestForm(s, name, args) ==
  /\ name # <<>>
  /\ ~HasNewline(s)
  /\ s = <<"R", "B">> \o name \o <<"B", "W">> \o args

RequestReadings(s) ==
  {<<SubSeq(s, 3, k - 1), SubSeq(s, k + 2, Len(s))>> : k \in 4..(Len(s) - 1)}

IsRequest(s) == \E r \in RequestReadings(s) : HasRequestForm(s, r[1], r[2])

\* C34: once onStreamEnded is through, a final content of the request form
\* made actuallyAToolCall answer true with the request's name and arguments
\* and put one tool-call request on m.in; any other content made it answer
\* false and nothing was injected
C34_RequestProseBecomesToolCall ==
  prosePc = "done" =>
    IF IsRequest(TrimSpace(proseIn))
      THEN /\ proseOut.yes
           /\ HasRequestForm(TrimSpace(proseIn), proseOut.ev.name, proseOut.ev.args)
           /\ injected = <<proseOut.ev>>
      ELSE ~proseOut.yes /\ injected = <<>>

\* C38: actuallyAToolCall never panics, whatever the final content
C38_NoPanicOnAnyProse == prosePc # "crashed"

\* ------------------------------------------------- claims on files.Context
\* C39: after any sequence of AddFile, RemoveFile and Clear, GetTotalSize()
\* is the sum of Size over the files held
C39_TotalSizeIsSumOfHeld == totalSize = HeldSize

\* ------------------------------------- claims on Close and Wait at any time
\* C37: Close and Wait called from another goroutine at any moment after
\* NewStream never panic on an unset cancel function or waiter context
C37_CloseWaitSafeAnyTime == earlyPanics = {}

====
